---------------------------- MODULE Spec2Model ----------------------------
(***************************************************************************)
(* A model of the voice-command pipeline of CRMBLR (the VoiceAssistant     *)
(* React component, src/unnamed/part_001 lines 415-1491) and of the        *)
(* donations page that publishes the biggest-donation fact.                *)
(*                                                                         *)
(* Text is modelled by TLA+ strings; includes / startsWith / toLowerCase / *)
(* trim / split are computed character by character.                       *)
(***************************************************************************)
EXTENDS Integers, Sequences, FiniteSets, TLC

\* ------------------------------------------------------------------ bounds
\* Number of vocabulary words joined into one generated utterance.
MaxWords == 2

\* ------------------------------------------------------------ JS strings

Upper == "ABCDEFGHIJKLMNOPQRSTUVWXYZ"
Lower == "abcdefghijklmnopqrstuvwxyz"

\* One character of String.prototype.toLowerCase.
LowerChar(c) ==
  IF \E i \in 1..Len(Upper) : SubSeq(Upper, i, i) = c
  THEN LET i == CHOOSE j \in 1..Len(Upper) : SubSeq(Upper, j, j) = c
       IN  SubSeq(Lower, i, i)
  ELSE c

RECURSIVE ToLowerCase(_)
ToLowerCase(s) ==
  IF Len(s) = 0 THEN ""
  ELSE LowerChar(SubSeq(s, 1, 1)) \o ToLowerCase(SubSeq(s, 2, Len(s)))

RECURSIVE TrimStart(_)
TrimStart(s) ==
  IF Len(s) > 0 /\ SubSeq(s, 1, 1) = " " THEN TrimStart(SubSeq(s, 2, Len(s))) ELSE s

RECURSIVE TrimEnd(_)
TrimEnd(s) ==
  IF Len(s) > 0 /\ SubSeq(s, Len(s), Len(s)) = " "
  THEN TrimEnd(SubSeq(s, 1, Len(s) - 1)) ELSE s

\* String.prototype.trim (the only white space of the model is the blank).
Trim(s) == TrimEnd(TrimStart(s))

\* String.prototype.includes
Includes(s, k) ==
  \E i \in 1..(Len(s) - Len(k) + 1) : SubSeq(s, i, i + Len(k) - 1) = k

\* String.prototype.startsWith
StartsWith(s, k) == Len(k) <= Len(s) /\ SubSeq(s, 1, Len(k)) = k

\* s.split(' ').length : one more than the number of blanks.
SplitLength(s) == Cardinality({i \in 1..Len(s) : SubSeq(s, i, i) = " "}) + 1

Digits == "0123456789"

RECURSIVE NatToString(_)
NatToString(n) ==
  IF n < 10 THEN SubSeq(Digits, n + 1, n + 1)
  ELSE NatToString(n \div 10) \o SubSeq(Digits, (n % 10) + 1, (n % 10) + 1)

\* Three digits, zero padded: one group of Number.prototype.toLocaleString.
Group3(n) ==
  SubSeq(Digits, (n \div 100) + 1, (n \div 100) + 1)
    \o SubSeq(Digits, ((n \div 10) % 10) + 1, ((n \div 10) % 10) + 1)
    \o SubSeq(Digits, (n % 10) + 1, (n % 10) + 1)

\* Number.prototype.toLocaleString() of a natural number, en-US grouping.
RECURSIVE ToLocaleString(_)
ToLocaleString(n) ==
  IF n < 1000 THEN NatToString(n)
  ELSE ToLocaleString(n \div 1000) \o "," \o Group3(n % 1000)


\* ------------------------------------------------------- donations page

\* The page's two in-memory donation lists (page.tsx lines 16-33).
mockDonations(slug) ==
  IF slug = "tokyo-voice-ai"
  THEN << [id |-> "1", amount |-> 15000, date |-> "2024-10-25", contact |-> "Alex.Inc (Sponsor)", status |-> "sent"],
          [id |-> "2", amount |-> 10000, date |-> "2024-10-25", contact |-> "Buddy.AI (Sponsor)", status |-> "sent"],
          [id |-> "3", amount |-> 5000, date |-> "2024-10-25", contact |-> "CyberAce (Sponsor)", status |-> "sent"],
          [id |-> "4", amount |-> 5000, date |-> "2024-10-25", contact |-> "Yosuke Yasuda (Sponsor)", status |-> "sent"],
          [id |-> "5", amount |-> 3000, date |-> "2024-10-25", contact |-> "Bye: AI (Sponsor)", status |-> "sent"],
          [id |-> "6", amount |-> 3000, date |-> "2024-10-25", contact |-> "Hackathon Prize Pool", status |-> "sent"],
          [id |-> "7", amount |-> 2000, date |-> "2024-10-24", contact |-> "Tokyo Tech Community", status |-> "sent"],
          [id |-> "8", amount |-> 1500, date |-> "2024-10-24", contact |-> "Ameba Partnership", status |-> "pending"],
          [id |-> "9", amount |-> 1000, date |-> "2024-10-23", contact |-> "Voice AI Enthusiasts", status |-> "sent"],
          [id |-> "10", amount |-> 500, date |-> "2024-10-23", contact |-> "Local Developer Group", status |-> "sent"] >>
  ELSE << [id |-> "1", amount |-> 250, date |-> "2024-01-15", contact |-> "John Smith", status |-> "sent"],
          [id |-> "2", amount |-> 500, date |-> "2024-01-14", contact |-> "Jane Doe", status |-> "pending"],
          [id |-> "3", amount |-> 100, date |-> "2024-01-13", contact |-> "Bob Johnson", status |-> "sent"],
          [id |-> "4", amount |-> 1000, date |-> "2024-01-12", contact |-> "Alice Brown", status |-> "sent"],
          [id |-> "5", amount |-> 75, date |-> "2024-01-11", contact |-> "Charlie Wilson", status |-> "none"] >>

\* A reduction that also replaces the maximum by a later donation of the
\* same amount.
RECURSIVE ReduceMaxLast(_, _, _)
ReduceMaxLast(list, i, max) ==
  IF i > Len(list) THEN max
  ELSE ReduceMaxLast(list, i + 1, IF list[i].amount >= max.amount THEN list[i] ELSE max)

\* Array.prototype.reduce((max, d) => d.amount > max.amount ? d : max, list[0])
RECURSIVE ReduceMax(_, _, _)
ReduceMax(list, i, max) ==
  IF i > Len(list) THEN max
  ELSE ReduceMax(list, i + 1, IF list[i].amount > max.amount THEN list[i] ELSE max)

biggestDonation(slug) == ReduceMax(mockDonations(slug), 1, mockDonations(slug)[1])

\* window.biggestDonationInfo : absent, or the fact the page's effect stored.
NoDonationInfo == [present |-> FALSE, donor |-> "", amount |-> 0, date |-> ""]

DonationInfoOf(slug) ==
  [present |-> TRUE,
   donor   |-> biggestDonation(slug).contact,
   amount  |-> biggestDonation(slug).amount,
   date    |-> biggestDonation(slug).date]

\* The tenant slugs a donations page is opened for.
Slugs == {"tokyo-voice-ai", "demo-makelit"}

\* ----------------------------------------------------------- classifier

\* The tenantId prop of the component.
tenantId == "tokyo-voice-ai"

\* navigateTo = null
Null == "null"

\* text of the reply when the utterance is answered by a remote query
Remote == "<remote answer>"

Intent(b, r, n) == [branch |-> b, responseText |-> r, navigateTo |-> n]

\* The guards of the if / else-if chain of processVoiceCommand, in the
\* order of the source (lines 672-836).
IsStop(lc) ==
  Includes(lc, "stop") \/ Includes(lc, "stop talking") \/ Includes(lc, "shut up")
    \/ Includes(lc, "be quiet")

IsPipeline(lc) ==
  Includes(lc, "sales") \/ Includes(lc, "funnel") \/ Includes(lc, "pipeline")

IsDonations(lc) ==
  Includes(lc, "donations") \/ Includes(lc, "quarter") \/ Includes(lc, "revenue")

IsBiggest(lc) ==
  Includes(lc, "biggest donation") \/ Includes(lc, "biggest donor")
    \/ Includes(lc, "top donor") \/ Includes(lc, "largest donation")
    \/ Includes(lc, "biggest donor this quarter")
    \/ Includes(lc, "who is the biggest donor")

IsContacts(lc) ==
  Includes(lc, "contacts") \/ Includes(lc, "people") \/ Includes(lc, "customers")

IsCalendar(lc) ==
  Includes(lc, "calendar") \/ Includes(lc, "meeting") \/ Includes(lc, "schedule")

IsReports(lc) ==
  Includes(lc, "reports") \/ Includes(lc, "analytics") \/ Includes(lc, "data")

IsFind(lc, name) == Includes(lc, "find") /\ Includes(lc, name)

IsWeather(lc) ==
  Includes(lc, "weather") \/ Includes(lc, "temperature") \/ Includes(lc, "climate")
    \/ Includes(lc, "what's the weather") \/ Includes(lc, "how's the weather")
    \/ Includes(lc, "weather like") \/ Includes(lc, "weather in tokyo")
    \/ Includes(lc, "tokyo weather") \/ Includes(lc, "rain") \/ Includes(lc, "sunny")
    \/ Includes(lc, "cloudy") \/ Includes(lc, "forecast")

IsAdvice(lc) ==
  Includes(lc, "donation advice") \/ Includes(lc, "how to get donations")
    \/ Includes(lc, "donation strategy") \/ Includes(lc, "increase donations")
    \/ Includes(lc, "get donations up") \/ Includes(lc, "donation tips")
    \/ Includes(lc, "fundraising advice")

IsQuestion(lc) ==
  StartsWith(lc, "question") \/ StartsWith(lc, "ask") \/ StartsWith(lc, "what is")
    \/ StartsWith(lc, "how does") \/ StartsWith(lc, "explain")
    \/ StartsWith(lc, "tell me about")

IsHelp(lc) == Includes(lc, "help") \/ Includes(lc, "what can you do")

\* The biggest-donor branch (lines 684-696).
BiggestIntent(lc, info) ==
  IF info.present
  THEN IF Includes(lc, "quarter")
       THEN Intent("biggest",
                   "Alex Inc is the biggest donor this quarter with $"
                     \o ToLocaleString(info.amount) \o " donated on " \o info.date \o "!",
                   Null)
       ELSE Intent("biggest",
                   "The biggest donor is " \o info.donor \o " with $"
                     \o ToLocaleString(info.amount) \o " donated on " \o info.date \o "!",
                   Null)
  ELSE Intent("biggest",
              "Perfect! Let me show you the donations page to find the biggest donor this quarter!",
              "/t/" \o tenantId \o "/donations")

HelpText ==
  "I can help you navigate to sales pipeline, donations, contacts, calendar, reports, find specific people like Jonathan, Takua, Hong, or Datz, tell you about the biggest donor this quarter, check the weather in Tokyo, get donation advice, answer any general question, or say 'stop' to stop me talking! Just say what you need!"

DefaultText ==
  "I didn't quite catch that. Try saying 'sales pipeline', 'donations', 'contacts', 'find Jonathan', or ask a question starting with 'QUESTION'."

\* The chain from its third guard on (lines 681-840).
ClassifyFromDonations(lc, info) ==
  IF IsDonations(lc)
    THEN Intent("donations", "Perfect! Opening donations for this quarter!", "/t/" \o tenantId \o "/donations")
  ELSE IF IsBiggest(lc) THEN BiggestIntent(lc, info)
  ELSE IF IsContacts(lc)
    THEN Intent("contacts", "Opening your contacts!", "/t/" \o tenantId \o "/contacts")
  ELSE IF IsCalendar(lc)
    THEN Intent("calendar", "Let's check your calendar!", "/t/" \o tenantId \o "/calendar")
  ELSE IF IsReports(lc)
    THEN Intent("reports", "Perfect! Generating your reports!", "/t/" \o tenantId \o "/reports")
  ELSE IF IsFind(lc, "jonathan")
    THEN Intent("find", "Perfect! Let me find Jonathan for you!", "/t/" \o tenantId \o "/contacts?search=Jonathan")
  ELSE IF IsFind(lc, "takua")
    THEN Intent("find", "Finding Takua for you!", "/t/" \o tenantId \o "/contacts?search=Takua")
  ELSE IF IsFind(lc, "hong")
    THEN Intent("find", "Perfect! Let me find Hong for you!", "/t/" \o tenantId \o "/contacts?search=Hong")
  ELSE IF IsFind(lc, "datz")
    THEN Intent("find", "Finding Datz for you!", "/t/" \o tenantId \o "/contacts?search=Datz")
  ELSE IF IsWeather(lc) THEN Intent("weather", Remote, Null)
  ELSE IF IsAdvice(lc) THEN Intent("advice", Remote, Null)
  ELSE IF IsQuestion(lc) THEN Intent("question", Remote, Null)
  ELSE IF IsHelp(lc) THEN Intent("help", HelpText, Null)
  ELSE Intent("default", DefaultText, Null)

\* Mutant of Classify: the pipeline rule is tried before the stop rule.
ClassifyPipelineFirst(command, info) ==
  LET lc == ToLowerCase(command) IN
  IF IsPipeline(lc)
    THEN Intent("pipeline", "Let me show you the sales pipeline!", "/t/" \o tenantId \o "/pipeline")
  ELSE IF IsStop(lc) THEN Intent("stop", "", Null)
  ELSE ClassifyFromDonations(lc, info)

\* The classifier: lowerCommand = command.toLowerCase() and the first branch
\* of the chain whose guard holds (lines 666-840).
Classify(command, info) ==
  LET lc == ToLowerCase(command) IN
  IF IsStop(lc) THEN Intent("stop", "", Null)
  ELSE IF IsPipeline(lc)
    THEN Intent("pipeline", "Let me show you the sales pipeline!", "/t/" \o tenantId \o "/pipeline")
  ELSE ClassifyFromDonations(lc, info)

\* The validation of processVoiceCommand that precedes classification
\* (lines 636, 643-647): a single word is a command only with help or stop.
normalizedCommand(command) == Trim(ToLowerCase(command))

\* A word check that lets every command through.
IsSpecificAlways(command) == TRUE

IsSpecific(command) ==
  LET n == normalizedCommand(command) IN
  ~(SplitLength(n) < 2 /\ ~Includes(n, "help") /\ ~Includes(n, "stop"))


\* ------------------------------------------------------- session: state

\* Concurrent speak() operations (hosted-synthesis requests / audio elements).
MaxSpeak == 2
\* Browser utterances that exist at once (queued, speaking or cancelled).
MaxUtterances == 2
\* SpeechRecognition objects alive at once.
MaxRecognizers == 2
\* Remote queries awaiting their response at once.
MaxQueries == 1
\* Room connection attempts alive at once.
MaxRooms == 2
\* External stimuli of one run: clicks, utterances heard, room data
\* messages, and faults (failed requests, recognizer, audio and engine errors).
MaxStimuli == 3

\* Time advances in ticks of 500 ms; every delay of the source is a
\* multiple of it.
Ticks(ms) == ms \div 500

DispatchDelayMs == 500
NavigateDelayMs == 500
RearmDelayMs == 2000
RestartDelayMs == 2000
QueryClearDelayMs == 3000
LocalClearDelayMs == 5000
DebounceMs == 3000
CheckIntervalMs == 5000

VARIABLES
  st,                    \* the component's React state (useState, lines 449-460)
  chk,                   \* the periodic-check effect: its interval and closure
  lastProcessedCommand,  \* ref: .current and the age of .timestamp
  stopSpeakingRef,       \* ref: 0 (null) or the speak operation whose stop function it holds
  recognitionRef,        \* ref: 0 (null) or a recognizer
  roomRef,               \* ref: 0 (null) or a room
  audioContextRef,       \* ref: audio-level metering is set up
  recs,                  \* the SpeechRecognition objects
  ops,                   \* the speak() operations: request and audio element
  utts,                  \* the SpeechSynthesisUtterances of the browser engine
  queries,               \* remote queries awaiting their response
  rooms,                 \* room connections and their registered handlers
  timers,                \* pending setTimeout callbacks
  disconnecting,         \* disconnectFromRoom awaits room.disconnect()
  window,                \* window.biggestDonationInfo
  browser,               \* which speech APIs the browser has
  stimuli,               \* external stimuli still allowed in this run
  ev,                    \* the handler that ran last, and what it decided
  utterance,             \* classifier: the utterance given to it
  intent,                \* classifier: the intent it returned
  heard,                 \* capture: the recognition event or room transcript given to it
  emitted,               \* capture: the calls the handler made for it
  request,               \* server routes: the POST request and the server's environment
  response,              \* server routes: the handler's progress and its response
  donations              \* donations page: the list the page renders

vars == << st, chk, lastProcessedCommand, stopSpeakingRef, recognitionRef, roomRef,
           audioContextRef, recs, ops, utts, queries, rooms, timers, disconnecting,
           window, browser, stimuli, ev, utterance, intent, heard, emitted,
           request, response, donations >>

\* The state variables a closure created during one render reads later:
\* every callback keeps the values of the render that created it.
Env(s) ==
  [isConnected |-> s.isConnected, isListening |-> s.isListening,
   isSpeaking |-> s.isSpeaking, isProcessing |-> s.isProcessing,
   isAmbientMode |-> s.isAmbientMode, isProcessingCommand |-> s.isProcessingCommand,
   hasIntroduced |-> s.hasIntroduced]

NoEnv ==
  [isConnected |-> FALSE, isListening |-> FALSE, isSpeaking |-> FALSE,
   isProcessing |-> FALSE, isAmbientMode |-> FALSE, isProcessingCommand |-> FALSE,
   hasIntroduced |-> FALSE]

\* useState initial values (lines 449-460).
InitialState ==
  [isConnected |-> FALSE, isListening |-> FALSE, isSpeaking |-> FALSE,
   connectionStatus |-> "disconnected", error |-> "", avatarState |-> "idle",
   isProcessing |-> FALSE, isAmbientMode |-> TRUE, isProcessingCommand |-> FALSE,
   hasIntroduced |-> FALSE]

\* An onEnd callback: none, the one of a remote-query branch ("query") or
\* the one of the local branches ("local", lines 842-857).
NoOnEnd == [kind |-> "none", navigateTo |-> Null]
OnEnd(kind, nav) == [kind |-> kind, navigateTo |-> nav]

NoRec == [status |-> "none", env |-> NoEnv]
NoOp == [phase |-> "none", env |-> NoEnv, text |-> "", onEnd |-> NoOnEnd, fallbacks |-> 0]
NoUtt ==
  [state |-> "none", env |-> NoEnv, text |-> "", onEnd |-> NoOnEnd, attempt |-> 0,
   ran |-> FALSE]
NoQuery == [state |-> "none", env |-> NoEnv, branch |-> ""]
NoRoom == [phase |-> "none", env |-> NoEnv]
NoEvent ==
  [h |-> "", command |-> "", busy |-> FALSE, accepted |-> FALSE, started |-> FALSE,
   again |-> FALSE]

\* A POST request to a server route: the route, the query or text of its
\* body, and OPENAI_API_KEY of the server's environment ("" when unset).
NoRequest == [route |-> "none", body |-> "", apiKey |-> ""]

\* The handler's progress ("received", "upstream" while it awaits the
\* upstream service, "done"), the response it returned, and the number of
\* calls it made to the upstream service.
NoResponse == [phase |-> "received", status |-> 0, answer |-> "", query |-> "", upstream |-> 0]

\* What a capture handler was given: a SpeechRecognitionEvent (resultIndex
\* and results, each result with its first alternative's transcript and
\* confidence in hundredths, and isFinal) or the text of a room transcript.
NoHeard == [source |-> "none", resultIndex |-> 1, results |-> << >>, text |-> ""]

\* Whether the capture handler has run, the calls it made, in order, and
\* whether its call of processVoiceCommand got past the guards.
NoEmission ==
  [handled |-> FALSE, setTranscript |-> << >>, publishData |-> << >>,
   processVoiceCommand |-> << >>, accepted |-> FALSE]

Timer(kind, ms, env, command, rec, nav) ==
  [kind |-> kind, left |-> Ticks(ms), env |-> env, command |-> command,
   rec |-> rec, navigateTo |-> nav]

\* The program state a handler works on, gathered so that the functions of
\* the component compose the way their calls do.  over: the handler needed
\* more objects than the bounds of the model allow.
World ==
  [st |-> st, lp |-> lastProcessedCommand, stopSpeakingRef |-> stopSpeakingRef,
   recognitionRef |-> recognitionRef, roomRef |-> roomRef,
   audioContextRef |-> audioContextRef, recs |-> recs, ops |-> ops, utts |-> utts,
   queries |-> queries, rooms |-> rooms, timers |-> timers,
   disconnecting |-> disconnecting, over |-> FALSE]

\* `if (!isListening && !isProcessing && !isProcessingCommand) setAvatarState('idle')`
IdleIfQuiet(w, env) ==
  IF ~env.isListening /\ ~env.isProcessing /\ ~env.isProcessingCommand
  THEN [w EXCEPT !.st.avatarState = "idle"] ELSE w

\* A free slot of a table, the lowest; 0 when there is none.
FreeSlot(table, field, n) ==
  IF \E i \in 1..n : table[i][field] = "none"
  THEN CHOOSE i \in 1..n : table[i][field] = "none" /\ \A j \in 1..(i - 1) : table[j][field] # "none"
  ELSE 0

\* Objects nothing can act on any more are dropped: a speak operation whose
\* request and audio are finished is kept only while stopSpeakingRef still
\* holds its stop function, a closed room is dropped (on a closed room
\* disconnect() does nothing), an ended recognizer is kept while
\* recognitionRef holds it or a restart of it is pending.
Collect(w) ==
  [w EXCEPT !.ops = [o \in 1..MaxSpeak |->
      IF w.ops[o].phase = "over" /\ w.stopSpeakingRef # o THEN NoOp ELSE w.ops[o]],
            !.rooms = [k \in 1..MaxRooms |->
      IF w.rooms[k].phase = "closed" THEN NoRoom ELSE w.rooms[k]],
            !.recs = [r \in 1..MaxRecognizers |->
      IF w.recs[r].status = "ended" /\ w.recognitionRef # r
           /\ ~\E t \in w.timers : t.kind = "restart" /\ t.rec = r
      THEN NoRec ELSE w.recs[r]]]


\* ------------------------------------------------------ session: inputs

\* What users say in the modelled runs.
SessionCommands == {"show pipeline", "Show Pipeline ", "stop talking", "what is ai"}

\* Final transcripts the recognizer may report.
Heard == SessionCommands \cup {"stop", "um"}

\* Commands other participants publish to the room: a navigation, a stop,
\* a call for help and one the classifier does not recognize.
RoomCommands == {"show pipeline", "stop", "help", "good morning"}

\* Data messages other participants publish to the room.
RoomMessages ==
  [type : {"transcript"}, text : RoomCommands]
    \cup [type : {"response"}, text : {"<response>"}]

noisePatterns ==
  {"uh", "um", "ah", "eh", "oh", "mm", "hmm", "huh", "yeah", "yes", "no", "ok",
   "okay", "right", "sure", "hello", "hi", "hey", "test", "testing", "mic", "microphone"}

\* Filters that let a final transcript of any length through.
PassesFiltersAnyLength(finalTranscript, confident) ==
  LET lowerTranscript == ToLowerCase(Trim(finalTranscript))
  IN  /\ confident
      /\ lowerTranscript \notin noisePatterns
      /\ ~(SplitLength(lowerTranscript) = 1 /\ Len(lowerTranscript) < 8)

\* The filters of recognition.onresult (lines 986-1017) on a final transcript.
PassesFilters(finalTranscript, confident) ==
  LET trimmedTranscript == Trim(finalTranscript)
      lowerTranscript   == ToLowerCase(trimmedTranscript)
  IN  /\ ~(Len(trimmedTranscript) < 5)
      /\ confident
      /\ lowerTranscript \notin noisePatterns
      /\ ~(SplitLength(lowerTranscript) = 1 /\ Len(lowerTranscript) < 8)

\* Transcripts that are noise words, as a recognizer or a participant of the
\* room may spell them.
NoiseTranscripts == noisePatterns \cup {" OK ", "Hello", "Testing ", " um"}

\* The loop of recognition.onresult (lines 970-977): the transcripts of the
\* results from index i on, final or interim ones, concatenated.
RECURSIVE Transcripts(_, _, _)
Transcripts(results, i, final) ==
  IF i > Len(results) THEN ""
  ELSE (IF results[i].isFinal = final THEN results[i].transcript ELSE "")
         \o Transcripts(results, i + 1, final)

\* recognition.onresult (lines 966-1048) as a function of the event, of
\* the busy flags of its closure and of roomRef.current: the calls it makes.
onresult(e, busy, room) ==
  LET finalTranscript   == Transcripts(e.results, e.resultIndex, TRUE)
      interimTranscript == Transcripts(e.results, e.resultIndex, FALSE)
      shown == IF interimTranscript # "" THEN << interimTranscript >> ELSE << >>
      last  == e.results[Len(e.results)]
  IN  IF finalTranscript # "" /\ PassesFilters(finalTranscript, ~(last.confidence < 80))
      THEN [handled             |-> TRUE,
            setTranscript       |-> Append(shown, finalTranscript),
            publishData         |-> IF room THEN << finalTranscript >> ELSE << >>,
            processVoiceCommand |-> IF ~busy THEN << finalTranscript >> ELSE << >>,
            accepted            |-> FALSE]
      ELSE [NoEmission EXCEPT !.handled = TRUE, !.setTranscript = shown]

\* What the string functions give on the session's utterances, computed once.
CommandFacts ==
  [c \in Heard \cup RoomCommands \cup NoiseTranscripts |->
     [normalized |-> normalizedCommand(c),
      specific   |-> IsSpecific(c),
      intent     |-> Classify(c, NoDonationInfo),
      passes     |-> PassesFilters(c, TRUE)]]


\* ------------------------------------------- session: the component's functions

\* SpeechRecognition.stop(): the recognizer ends, its onend follows.
RecognitionStop(w, r) ==
  IF r # 0 /\ w.recs[r].status \in {"starting", "listening"}
  THEN [w EXCEPT !.recs[r].status = "stopping"] ELSE w

\* startAmbientListening (lines 945-1087): a new recognizer whose handlers
\* close over the caller's render.
startAmbientListening(w, env) ==
  IF ~browser.speechRecognition
  THEN [w EXCEPT !.st.error = "Speech recognition not supported in this browser"]
  ELSE LET r == FreeSlot(w.recs, "status", MaxRecognizers) IN
       IF r = 0 THEN [w EXCEPT !.over = TRUE]
       ELSE [w EXCEPT !.recs[r] = [status |-> "starting", env |-> env],
                      !.recognitionRef = r]

\* stopAmbientListening (lines 1090-1101)
stopAmbientListening(w, env) ==
  IF w.recognitionRef = 0 THEN w
  ELSE LET w1 == RecognitionStop(w, w.recognitionRef)
           w2 == [w1 EXCEPT !.recognitionRef = 0, !.st.isListening = FALSE,
                            !.st.isAmbientMode = FALSE]
       IN  IF ~env.isProcessing THEN [w2 EXCEPT !.st.avatarState = "idle"] ELSE w2

\* window.speechSynthesis.cancel(): every utterance of the queue is removed;
\* each is told so by an event of its own.
SynthesisCancel(w) ==
  [w EXCEPT !.utts = [u \in 1..MaxUtterances |->
      IF w.utts[u].state \in {"queued", "speaking"}
      THEN [w.utts[u] EXCEPT !.state = "cancelled"] ELSE w.utts[u]]]

\* fallbackSpeak (lines 541-583).  attempt: how many times the fallback has
\* now been entered for the same speak(); ran: the stop function of that
\* speak() has already called onEnd.
fallbackSpeak(w, text, onEnd, env, attempt, ran) ==
  IF ~browser.speechSynthesis THEN w
  ELSE LET w1 == SynthesisCancel(w)
           u  == FreeSlot(w1.utts, "state", MaxUtterances)
       IN  IF u = 0 THEN [w EXCEPT !.over = TRUE]
           ELSE [w1 EXCEPT !.utts[u] = [state |-> "queued", env |-> env, text |-> text,
                                        onEnd |-> onEnd, attempt |-> attempt,
                                        ran |-> ran]]

\* speakWithOpenAI up to its first await (lines 472-486): the request is sent.
speakWithOpenAI(w, text, onEnd, env) ==
  LET o == FreeSlot(w.ops, "phase", MaxSpeak) IN
  IF o = 0 THEN [w EXCEPT !.over = TRUE]
  ELSE [w EXCEPT !.ops[o] = [phase |-> "fetch", env |-> env, text |-> text,
                             onEnd |-> onEnd, fallbacks |-> 0]]

\* speak (lines 586-604)
speak(w, text, onEnd, env) ==
  speakWithOpenAI(RecognitionStop(w, w.recognitionRef), text, onEnd, env)

\* A completion callback that sets the navigation timeout whatever the
\* command was.
SpeakCompletedNavigates(w, onEnd, env) ==
  LET w1 == IF onEnd.kind = "none" THEN w
            ELSE [w EXCEPT
                    !.st.isProcessing = FALSE,
                    !.st.isProcessingCommand = FALSE,
                    !.timers = @ \cup
                      {Timer("navigate", NavigateDelayMs, NoEnv, "", 0, onEnd.navigateTo),
                       Timer("clear",
                             IF onEnd.kind = "query" THEN QueryClearDelayMs ELSE LocalClearDelayMs,
                             NoEnv, "", 0, Null)}]
  IN [w1 EXCEPT !.timers = @ \cup {Timer("rearm", RearmDelayMs, env, "", 0, Null)}]

\* The completion callback speak() hands to speakWithOpenAI (lines 593-603),
\* with the caller's onEnd inlined (lines 749-758, 842-857).
SpeakCompleted(w, onEnd, env) ==
  LET w1 == IF onEnd.kind = "none" THEN w
            ELSE [w EXCEPT
                    !.st.isProcessing = FALSE,
                    !.st.isProcessingCommand = FALSE,
                    !.timers = @ \cup
                      (IF onEnd.kind = "local" /\ onEnd.navigateTo # Null
                       THEN {Timer("navigate", NavigateDelayMs, NoEnv, "", 0, onEnd.navigateTo)}
                       ELSE {})
                      \cup {Timer("clear",
                                  IF onEnd.kind = "query" THEN QueryClearDelayMs ELSE LocalClearDelayMs,
                                  NoEnv, "", 0, Null)}]
  IN [w1 EXCEPT !.timers = @ \cup {Timer("rearm", RearmDelayMs, env, "", 0, Null)}]

\* The function stored in stopSpeakingRef (lines 500-509), for operation o.
\* Pausing an audio element whose play() is still pending rejects that promise.
StopFunction(w, o) ==
  LET op == w.ops[o]
      w1 == [w EXCEPT !.ops[o].phase =
                CASE op.phase = "loading" -> "rejecting"
                  [] op.phase = "playing" -> "over"
                  [] OTHER -> op.phase,
              !.st.isSpeaking = FALSE]
  IN SpeakCompleted(IdleIfQuiet(w1, op.env), op.onEnd, op.env)

\* stopSpeaking (lines 607-625)
stopSpeaking(w, env) ==
  LET w1 == IF w.stopSpeakingRef # 0
            THEN [StopFunction(w, w.stopSpeakingRef) EXCEPT !.stopSpeakingRef = 0]
            ELSE w
      w2 == IF browser.speechSynthesis THEN SynthesisCancel(w1) ELSE w1
  IN IdleIfQuiet([w2 EXCEPT !.st.isSpeaking = FALSE], env)

\* Mutant of processVoiceCommand's timestamp check: no cooldown.
RecentlyProcessedNever(age) == FALSE

\* A cooldown that ends one tick early.
RecentlyProcessedShort(age) == age + 1 < Ticks(DebounceMs)

\* `now - lastProcessedTime < 3000` (lines 650-655)
RecentlyProcessed(age) == age < Ticks(DebounceMs)

\* `isProcessingCommand || isSpeaking || isProcessing` as the closure reads it
Busy(env) == env.isProcessingCommand \/ env.isSpeaking \/ env.isProcessing

\* processVoiceCommand (lines 628-858) up to its first await or its return.
processVoiceCommand(w, command, env) ==
  IF Busy(env) THEN w
  ELSE IF w.lp.current = CommandFacts[command].normalized THEN w
  ELSE IF ~CommandFacts[command].specific THEN w
  ELSE IF RecentlyProcessed(w.lp.age) THEN w
  ELSE
    LET i  == IF window = NoDonationInfo THEN CommandFacts[command].intent
              ELSE Classify(command, window)
        w1 == [w EXCEPT !.lp = [current |-> CommandFacts[command].normalized, age |-> 0],
                        !.st.isProcessingCommand = TRUE,
                        !.st.isProcessing = TRUE,
                        !.st.avatarState = "thinking"]
    IN
    IF i.branch = "stop"
    THEN [stopSpeaking(w1, env) EXCEPT !.st.isProcessingCommand = FALSE,
                                       !.st.isProcessing = FALSE,
                                       !.st.avatarState = "idle"]
    ELSE IF i.branch \in {"weather", "advice", "question"}
    THEN LET q == FreeSlot(w1.queries, "state", MaxQueries) IN
         IF q = 0 THEN [w EXCEPT !.over = TRUE]
         ELSE [w1 EXCEPT !.queries[q] = [state |-> "pending", env |-> env,
                                         branch |-> i.branch]]
    ELSE speak(w1, i.responseText, OnEnd("local", i.navigateTo), env)

\* A remote-query branch that takes the body of every response for an answer.
QueryReplyAlwaysAnswer(branch, outcome) == Remote

\* The reply of a remote-query branch (lines 738-747, 776-785, 814-823).
QueryReply(branch, outcome) ==
  IF outcome = "ok" THEN Remote
  ELSE IF branch = "weather"
    THEN IF outcome = "status"
         THEN "I couldn't get the weather information right now. Please try again later!"
         ELSE "I'm having trouble getting weather information. Please try again!"
  ELSE IF branch = "advice"
    THEN IF outcome = "status"
         THEN "I couldn't get donation advice right now. Please try again later!"
         ELSE "I'm having trouble getting donation advice. Please try again!"
  ELSE IF outcome = "status"
         THEN "I couldn't answer that question right now. Please try again later!"
         ELSE "I'm having trouble answering that question. Please try again!"

Greeting ==
  "I'm connected to LiveKit and listening ambiently! Just say what you need - like 'show me sales funnel' or 'find Jonathan'!"


\* --------------------------------------------------- session: rendering

\* The dependency list of the periodic-check effect (line 1272).
Deps(s) == << s.isConnected, s.isAmbientMode, s.isProcessingCommand, s.isListening, s.isSpeaking >>

ChkOff == [on |-> FALSE, env |-> NoEnv, left |-> 0]

\* A component whose periodic-check effect never sets the interval.
EffectNever(old, new, base) == ChkOff

\* The effect after a render (lines 1261-1272): when a dependency changed
\* the old interval is cleared and, under the effect's condition, a new one
\* is set whose callback closes over the new render.
Effect(old, new, base) ==
  IF Deps(new) = Deps(old) THEN base
  ELSE IF new.isConnected /\ new.isAmbientMode /\ ~new.isProcessingCommand
       THEN [on |-> TRUE, env |-> Env(new), left |-> Ticks(CheckIntervalMs)]
       ELSE ChkOff

\* A handler's result becomes the next state; the component re-renders.
\* n: the stimuli the step used.
CommitWith(w, base, e, n) ==
  /\ ~w.over
  /\ stimuli >= n
  /\ LET c == Collect(w) IN
       /\ st' = c.st
       /\ lastProcessedCommand' = c.lp
       /\ stopSpeakingRef' = c.stopSpeakingRef
       /\ recognitionRef' = c.recognitionRef
       /\ roomRef' = c.roomRef
       /\ audioContextRef' = c.audioContextRef
       /\ recs' = c.recs
       /\ ops' = c.ops
       /\ utts' = c.utts
       /\ queries' = c.queries
       /\ rooms' = c.rooms
       /\ timers' = c.timers
       /\ disconnecting' = c.disconnecting
       /\ chk' = Effect(st, c.st, base)
  /\ ev' = [e EXCEPT !.started =
              \E r \in 1..MaxRecognizers :
                 w.recs[r].status = "starting" /\ recs[r].status # "starting"]
  /\ stimuli' = stimuli - n
  /\ UNCHANGED << window, browser, utterance, intent, heard, emitted, request, response,
                  donations >>

Commit(w, e, n) == CommitWith(w, chk, e, n)

\* The record of a call of processVoiceCommand: was the session busy, and
\* did the call get past the guards.
Dispatched(w, command, after) ==
  [h |-> "processVoiceCommand", command |-> CommandFacts[command].normalized,
   busy |-> (w.st.isSpeaking \/ w.st.isProcessing \/ w.st.isProcessingCommand),
   accepted |-> (after.lp # w.lp), started |-> FALSE, again |-> FALSE]

\* ------------------------------------------------ session: connection

\* connectToRoom up to `await generateToken()` (lines 1104-1111); the button
\* is rendered while !isConnected.
ClickConnect ==
  /\ ~st.isConnected
  /\ LET k == FreeSlot(rooms, "phase", MaxRooms) IN
       /\ k # 0
       /\ Commit([World EXCEPT !.st.connectionStatus = "connecting",
                               !.st.error = "",
                               !.st.avatarState = "thinking",
                               !.rooms[k] = [phase |-> "token", env |-> Env(st)]],
                 NoEvent, 1)

\* The catch block of connectToRoom (lines 1205-1210).
ConnectFailed(w, k, phase) ==
  [w EXCEPT !.st.error = "Connection failed", !.st.connectionStatus = "disconnected",
            !.st.avatarState = "idle", !.rooms[k].phase = phase]

\* generateToken settles (lines 861-887, 1111-1203): on success the room is
\* created, stored in roomRef, its handlers registered and connect() called.
TokenResponse(k, ok) ==
  /\ rooms[k].phase = "token"
  /\ Commit(IF ok THEN [World EXCEPT !.roomRef = k, !.rooms[k].phase = "connecting"]
                  ELSE ConnectFailed(World, k, "none"),
            NoEvent, IF ok THEN 0 ELSE 1)

\* room.connect() rejects.
RoomConnectFails(k) ==
  /\ rooms[k].phase = "connecting"
  /\ Commit(ConnectFailed(World, k, "closed"), NoEvent, 1)

\* RoomEvent.Connected up to `await enableCameraAndMicrophone` (lines 1124-1130).
RoomConnected(k) ==
  /\ rooms[k].phase = "connecting"
  /\ Commit([World EXCEPT !.st.isConnected = TRUE, !.st.connectionStatus = "connected",
                          !.rooms[k].phase = "enabling"],
            NoEvent, 0)

\* The rest of the Connected handler (lines 1131-1143); when the microphone
\* cannot be enabled the handler's promise rejects and the rest is skipped.
MicrophoneEnabled(k, ok) ==
  /\ rooms[k].phase = "enabling"
  /\ LET env == rooms[k].env
         w0  == [World EXCEPT !.rooms[k].phase = "open"]
         w1  == startAmbientListening([w0 EXCEPT !.audioContextRef = TRUE], env)
         w2  == IF ~env.hasIntroduced
                THEN speak([w1 EXCEPT !.st.hasIntroduced = TRUE], Greeting, NoOnEnd, env)
                ELSE w1
     IN Commit(IF ok THEN w2 ELSE w0,
               IF ok /\ ~env.hasIntroduced
               THEN [NoEvent EXCEPT !.h = "greeting", !.again = st.hasIntroduced]
               ELSE NoEvent,
               IF ok THEN 0 ELSE 1)

\* RoomEvent.Disconnected (lines 1146-1155): the provider drops the room
\* (a stimulus), or room.disconnect() was called.
RoomDisconnected(k) ==
  /\ rooms[k].phase \in {"enabling", "open", "closing"}
  /\ LET env == rooms[k].env
         w0  == [World EXCEPT !.st.isConnected = FALSE, !.st.isListening = FALSE,
                              !.st.connectionStatus = "disconnected",
                              !.st.avatarState = "idle", !.st.hasIntroduced = FALSE,
                              !.audioContextRef = FALSE,
                              !.rooms[k].phase = "closed"]
     IN Commit(stopAmbientListening(w0, env),
               IF rooms[k].phase = "closing" THEN NoEvent
               ELSE [NoEvent EXCEPT !.h = "Disconnected"],
               IF rooms[k].phase = "closing" THEN 0 ELSE 1)

\* The statements of disconnectFromRoom after the await (lines 1222-1231).
DisconnectTail(w) ==
  [w EXCEPT !.roomRef = 0, !.st.isConnected = FALSE, !.st.isListening = FALSE,
            !.st.isProcessing = FALSE, !.st.isProcessingCommand = FALSE,
            !.st.connectionStatus = "disconnected", !.st.avatarState = "idle",
            !.st.hasIntroduced = FALSE, !.disconnecting = FALSE]

\* disconnectFromRoom up to `await room.disconnect()` (lines 1214-1221); the
\* button is rendered while isConnected.
ClickDisconnect ==
  /\ st.isConnected
  /\ ~disconnecting
  /\ LET w0 == [stopAmbientListening(World, Env(st)) EXCEPT !.audioContextRef = FALSE]
     IN IF roomRef = 0
        THEN Commit(DisconnectTail(w0), [NoEvent EXCEPT !.h = "disconnected"], 1)
        ELSE Commit([w0 EXCEPT !.disconnecting = TRUE,
                               !.rooms[roomRef].phase =
                                  IF @ \in {"enabling", "open"} THEN "closing" ELSE @],
                    NoEvent, 1)

\* room.disconnect() resolves, after the room has emitted Disconnected.
DisconnectReturns ==
  /\ disconnecting
  /\ roomRef # 0 => rooms[roomRef].phase # "closing"
  /\ Commit(DisconnectTail(World), [NoEvent EXCEPT !.h = "disconnected"], 0)

\* RoomEvent.DataReceived (lines 1171-1199)
DataReceived(k, msg) ==
  /\ rooms[k].phase \in {"enabling", "open"}
  /\ LET env == rooms[k].env IN
     IF msg.type = "transcript"
     THEN IF ~Busy(env)
          THEN LET w == processVoiceCommand(World, msg.text, env)
               IN  Commit(w, Dispatched(World, msg.text, w), 1)
          ELSE Commit(World, NoEvent, 1)
     ELSE Commit(speak(World, msg.text, NoOnEnd, env), NoEvent, 1)

\* toggleAmbientMode (lines 1235-1244); the button is rendered while isConnected.
ClickToggle ==
  /\ st.isConnected
  /\ LET env == Env(st) IN
     IF env.isAmbientMode
     THEN Commit(speak(stopAmbientListening(World, env),
                       "I've stopped listening. Click the button to start ambient listening again!",
                       NoOnEnd, env),
                 NoEvent, 1)
     ELSE Commit(speak(startAmbientListening([World EXCEPT !.st.isAmbientMode = TRUE], env),
                       "I'm now listening ambiently! Just say what you need - like 'show me sales funnel' or 'find Jonathan'!",
                       NoOnEnd, env),
                 NoEvent, 1)

\* The Stop Speaking button (lines 1440-1453), rendered while isSpeaking.
ClickStopSpeaking ==
  /\ st.isSpeaking
  /\ Commit(IF browser.speechSynthesis
            THEN [SynthesisCancel(World) EXCEPT !.st.isSpeaking = FALSE,
                                                !.st.avatarState = "idle"]
            ELSE World,
            [NoEvent EXCEPT !.h = "Stop Speaking"], 1)


\* ------------------------------------------------ session: recognition

\* recognition.onstart (lines 960-964)
RecognitionStarted(r) ==
  /\ recs[r].status = "starting"
  /\ Commit([World EXCEPT !.recs[r].status = "listening", !.st.isListening = TRUE,
                          !.st.avatarState = "listening"],
            NoEvent, 0)

\* recognition.onresult with a final transcript (lines 966-1048).  The
\* transcript is published to the room; other participants receive it.
RecognitionResult(r, finalTranscript, confident) ==
  /\ recs[r].status = "listening"
  /\ LET env == recs[r].env IN
     IF confident /\ CommandFacts[finalTranscript].passes /\ ~Busy(env)
     THEN Commit([World EXCEPT !.timers = @ \cup
                     {Timer("dispatch", DispatchDelayMs, env, finalTranscript, 0, Null)}],
                 NoEvent, 1)
     ELSE Commit(World, NoEvent, 1)

\* recognition.onerror (lines 1050-1063); the recognizer ends after an error.
RecognitionError(r, error) ==
  /\ recs[r].status \in {"starting", "listening"}
  /\ LET env == recs[r].env
         w0  == [World EXCEPT !.recs[r].status = "stopping"]
     IN
     IF error = "no-speech" THEN Commit(w0, NoEvent, 1)
     ELSE IF error = "network"
     THEN Commit(speak([w0 EXCEPT !.st.error = "Network error. Please check your connection."],
                       "Network error. Please check your connection.", NoOnEnd, env),
                 NoEvent, 1)
     ELSE Commit([speak([w0 EXCEPT !.st.error = "Microphone access denied. Please allow microphone access!"],
                        "Microphone access denied. Please allow microphone access!", NoOnEnd, env)
                    EXCEPT !.st.isAmbientMode = FALSE],
                 NoEvent, 1)

\* recognition.onend (lines 1065-1082): after stop(), after an error, or
\* when the browser ends the stream by itself (a stimulus).
RecognitionEnded(r) ==
  /\ recs[r].status \in {"listening", "stopping"}
  /\ LET env == recs[r].env
         w0  == [World EXCEPT !.recs[r].status = "ended", !.st.isListening = FALSE]
         w1  == IF ~env.isProcessing /\ ~env.isProcessingCommand
                THEN [w0 EXCEPT !.st.avatarState = "idle"] ELSE w0
     IN Commit(IF env.isConnected /\ env.isAmbientMode
               THEN [w1 EXCEPT !.timers = @ \cup {Timer("restart", RestartDelayMs, env, "", r, Null)}]
               ELSE w1,
               NoEvent, IF recs[r].status = "listening" THEN 1 ELSE 0)

\* The timeout of recognition.onend (lines 1075-1080); start() on a
\* recognizer that is running throws and changes nothing.
RestartTimer(t) ==
  /\ t \in timers /\ t.kind = "restart" /\ t.left = 0
  /\ LET w0 == [World EXCEPT !.timers = @ \ {t}] IN
     Commit(IF t.env.isConnected /\ t.env.isAmbientMode /\ ~t.env.isProcessingCommand
                 /\ ~t.env.isSpeaking /\ recs[t.rec].status = "ended"
            THEN [w0 EXCEPT !.recs[t.rec].status = "starting"] ELSE w0,
            [NoEvent EXCEPT !.h = "restart"], 0)

\* The timeout of recognition.onresult (lines 1035-1043)
DispatchTimer(t) ==
  /\ t \in timers /\ t.kind = "dispatch" /\ t.left = 0
  /\ LET w0 == [World EXCEPT !.timers = @ \ {t}] IN
     IF ~Busy(t.env)
     THEN LET w == processVoiceCommand(w0, t.command, t.env)
          IN  Commit(w, Dispatched(World, t.command, w), 0)
     ELSE Commit(w0, NoEvent, 0)

\* The timeout of speak()'s completion callback (lines 597-602)
RearmTimer(t) ==
  /\ t \in timers /\ t.kind = "rearm" /\ t.left = 0
  /\ LET w0 == [World EXCEPT !.timers = @ \ {t}] IN
     Commit(IF t.env.isConnected /\ t.env.isAmbientMode /\ ~t.env.isProcessingCommand
            THEN startAmbientListening(w0, t.env) ELSE w0,
            NoEvent, 0)

\* router.push(navigateTo) after the reply (lines 848-850)
NavigateTimer(t) ==
  /\ t \in timers /\ t.kind = "navigate" /\ t.left = 0
  /\ Commit([World EXCEPT !.timers = @ \ {t}],
            [NoEvent EXCEPT !.h = "router.push", !.command = t.navigateTo], 0)

\* lastProcessedCommand.current = '' (lines 755-757, 854-856)
ClearTimer(t) ==
  /\ t \in timers /\ t.kind = "clear" /\ t.left = 0
  /\ Commit([World EXCEPT !.timers = @ \ {t}, !.lp.current = ""], NoEvent, 0)

\* The interval of the periodic check (lines 1263-1268)
PeriodicCheck ==
  /\ chk.on /\ chk.left = 0
  /\ LET env == chk.env IN
     CommitWith(IF env.isConnected /\ env.isAmbientMode /\ ~env.isProcessingCommand
                     /\ ~env.isListening /\ ~env.isSpeaking
                THEN startAmbientListening(World, env) ELSE World,
                [chk EXCEPT !.left = Ticks(CheckIntervalMs)],
                [NoEvent EXCEPT !.h = "periodic check"], 0)


\* ----------------------------------------------------- session: speech

\* The /api/openai/tts request settles (lines 488-531).  On success the audio
\* element is created, isSpeaking set, the stop function stored and play()
\* called; otherwise the catch block falls back (lines 533-537).
TtsResponse(o, ok) ==
  /\ ops[o].phase = "fetch"
  /\ LET op == ops[o] IN
     Commit(IF ok
            THEN [World EXCEPT !.ops[o].phase = "loading", !.st.isSpeaking = TRUE,
                               !.st.avatarState = "speaking", !.stopSpeakingRef = o]
            ELSE fallbackSpeak([World EXCEPT !.ops[o].phase = "over", !.ops[o].fallbacks = 1],
                               op.text, op.onEnd, op.env, 1, FALSE),
            NoEvent, IF ok THEN 0 ELSE 1)

\* audio.play() resolves: playback has begun.
AudioPlayStarts(o) ==
  /\ ops[o].phase = "loading"
  /\ Commit([World EXCEPT !.ops[o].phase = "playing"], NoEvent, 0)

\* audio.play() rejects (autoplay refused, load failed, or paused before it
\* began): the catch block (lines 533-537).
AudioPlayRejected(o) ==
  /\ ops[o].phase \in {"loading", "rejecting"}
  /\ LET op == ops[o] IN
     Commit(fallbackSpeak([World EXCEPT !.ops[o].phase = "over",
                                        !.ops[o].fallbacks = op.fallbacks + 1],
                          op.text, op.onEnd, op.env, op.fallbacks + 1,
                          op.phase = "rejecting" /\ op.fallbacks = 0),
            NoEvent, IF op.phase = "loading" THEN 1 ELSE 0)

\* audio.onerror (lines 521-529).  An element that fails while play() is
\* pending also rejects that promise.
AudioError(o) ==
  /\ ops[o].phase \in {"loading", "playing"}
  /\ LET op == ops[o]
         w0 == [World EXCEPT !.ops[o].phase = IF op.phase = "loading" THEN "rejecting" ELSE "over",
                             !.ops[o].fallbacks = op.fallbacks + 1,
                             !.st.isSpeaking = FALSE]
     IN Commit(fallbackSpeak(IdleIfQuiet(w0, op.env), op.text, op.onEnd, op.env, op.fallbacks + 1,
                             FALSE),
               NoEvent, 1)

\* audio.onended (lines 511-519)
AudioEnded(o) ==
  /\ ops[o].phase = "playing"
  /\ LET op == ops[o]
         w0 == [World EXCEPT !.ops[o].phase = "over", !.st.isSpeaking = FALSE]
         w1 == [IdleIfQuiet(w0, op.env) EXCEPT !.stopSpeakingRef = 0]
     IN Commit(SpeakCompleted(w1, op.onEnd, op.env), [NoEvent EXCEPT !.h = "ended"], 0)

\* utterance.onstart (lines 561-564)
UtteranceStart(u) ==
  /\ utts[u].state = "queued"
  /\ \A v \in 1..MaxUtterances : utts[v].state # "speaking"
  /\ Commit([World EXCEPT !.utts[u].state = "speaking", !.st.isSpeaking = TRUE,
                          !.st.avatarState = "speaking"],
            NoEvent, 0)

\* utterance.onend (lines 565-571)
UtteranceOnEnd(w, u) ==
  LET ut == w.utts[u]
      w0 == [w EXCEPT !.utts[u] = NoUtt, !.st.isSpeaking = FALSE]
  IN SpeakCompleted(IdleIfQuiet(w0, ut.env), ut.onEnd, ut.env)

\* utterance.onerror (lines 572-578)
UtteranceOnError(w, u) ==
  IdleIfQuiet([w EXCEPT !.utts[u] = NoUtt, !.st.isSpeaking = FALSE], w.utts[u].env)

\* The utterance has been spoken to its end.
UtteranceEnd(u) ==
  /\ utts[u].state = "speaking"
  /\ Commit(UtteranceOnEnd(World, u),
            [NoEvent EXCEPT !.h = "ended", !.again = utts[u].ran], 0)

\* The engine fails on the utterance.
UtteranceError(u) ==
  /\ utts[u].state \in {"queued", "speaking"}
  /\ Commit(UtteranceOnError(World, u), NoEvent, 1)

\* What a browser tells an utterance removed by cancel(): an error event
\* ("canceled" / "interrupted"), or, in some engines, an end event.
CancelEvents == {"error", "end"}

UtteranceCancelled(u, event) ==
  /\ utts[u].state = "cancelled"
  /\ Commit(IF event = "end" THEN UtteranceOnEnd(World, u) ELSE UtteranceOnError(World, u),
            NoEvent, 0)

\* The request of a remote-query branch settles (lines 727-758, 765-796,
\* 803-834): ok, a non-success status, or a thrown network error.
QueryOutcomes == {"ok", "status", "throw"}

QueryResponse(q, outcome) ==
  /\ queries[q].state = "pending"
  /\ LET qu == queries[q] IN
     Commit(speak([World EXCEPT !.queries[q] = NoQuery],
                  QueryReply(qu.branch, outcome), OnEnd("query", Null), qu.env),
            [NoEvent EXCEPT !.h = "QueryResponse", !.command = outcome],
            IF outcome = "ok" THEN 0 ELSE 1)

\* -------------------------------------------------------- session: time

\* What arrives well within 500 ms of its cause in the modelled runs:
\* onstart after start(), onend after stop() or an error, the settling of
\* play(), the events of cancelled utterances, the start of a queued
\* utterance, the steps of connecting and disconnecting, and the response of
\* the synthesis route.  Remote queries and playback take any time.
Prompt ==
  \/ \E r \in 1..MaxRecognizers : recs[r].status \in {"starting", "stopping"}
  \/ \E o \in 1..MaxSpeak : ops[o].phase \in {"fetch", "loading", "rejecting"}
  \/ \E u \in 1..MaxUtterances : utts[u].state \in {"queued", "cancelled"}
  \/ \E k \in 1..MaxRooms : rooms[k].phase \in {"token", "connecting", "enabling", "closing"}
  \/ disconnecting

\* 500 ms pass.  A timeout that is due runs before time moves on.
Tick ==
  /\ \A t \in timers : t.left > 0
  /\ ~(chk.on /\ chk.left = 0)
  /\ ~Prompt
  /\ timers' = {[t EXCEPT !.left = @ - 1] : t \in timers}
  /\ chk' = IF chk.on THEN [chk EXCEPT !.left = @ - 1] ELSE chk
  /\ lastProcessedCommand' =
       [lastProcessedCommand EXCEPT !.age = IF @ < Ticks(DebounceMs) THEN @ + 1 ELSE @]
  /\ ev' = NoEvent
  /\ UNCHANGED << st, stopSpeakingRef, recognitionRef, roomRef, audioContextRef, recs,
                  ops, utts, queries, rooms, disconnecting, window, browser, stimuli,
                  utterance, intent, heard, emitted, request, response, donations >>

\* ------------------------------------------------- session: specification

\* The browsers of the modelled runs: one with both speech APIs (lines 933
\* and 543 find them) and one with neither.
Browsers ==
  {[speechRecognition |-> b, speechSynthesis |-> b] : b \in BOOLEAN}

Init ==
  /\ st = InitialState
  /\ chk = ChkOff
  /\ lastProcessedCommand = [current |-> "", age |-> Ticks(DebounceMs)]
  /\ stopSpeakingRef = 0
  /\ recognitionRef = 0
  /\ roomRef = 0
  /\ audioContextRef = FALSE
  /\ recs = [r \in 1..MaxRecognizers |-> NoRec]
  /\ ops = [o \in 1..MaxSpeak |-> NoOp]
  /\ utts = [u \in 1..MaxUtterances |-> NoUtt]
  /\ queries = [q \in 1..MaxQueries |-> NoQuery]
  /\ rooms = [k \in 1..MaxRooms |-> NoRoom]
  /\ timers = {}
  /\ disconnecting = FALSE
  /\ window = NoDonationInfo
  /\ browser \in Browsers
  /\ stimuli = MaxStimuli
  /\ ev = NoEvent
  /\ utterance = ""
  /\ intent = Intent("", "", Null)
  /\ heard = NoHeard
  /\ emitted = NoEmission
  /\ request = NoRequest
  /\ response = NoResponse
  /\ donations = << >>

Next ==
  \/ ClickConnect
  \/ \E k \in 1..MaxRooms, ok \in BOOLEAN : TokenResponse(k, ok)
  \/ \E k \in 1..MaxRooms : RoomConnectFails(k)
  \/ \E k \in 1..MaxRooms : RoomConnected(k)
  \/ \E k \in 1..MaxRooms, ok \in BOOLEAN : MicrophoneEnabled(k, ok)
  \/ \E k \in 1..MaxRooms : RoomDisconnected(k)
  \/ ClickDisconnect
  \/ DisconnectReturns
  \/ \E k \in 1..MaxRooms, msg \in RoomMessages : DataReceived(k, msg)
  \/ ClickToggle
  \/ ClickStopSpeaking
  \/ \E r \in 1..MaxRecognizers : RecognitionStarted(r)
  \/ \E r \in 1..MaxRecognizers, c \in Heard, confident \in BOOLEAN : RecognitionResult(r, c, confident)
  \/ \E r \in 1..MaxRecognizers, e \in {"no-speech", "network", "not-allowed"} : RecognitionError(r, e)
  \/ \E r \in 1..MaxRecognizers : RecognitionEnded(r)
  \/ \E t \in timers : RestartTimer(t)
  \/ \E t \in timers : DispatchTimer(t)
  \/ \E t \in timers : RearmTimer(t)
  \/ \E t \in timers : NavigateTimer(t)
  \/ \E t \in timers : ClearTimer(t)
  \/ PeriodicCheck
  \/ \E o \in 1..MaxSpeak, ok \in BOOLEAN : TtsResponse(o, ok)
  \/ \E o \in 1..MaxSpeak : AudioPlayStarts(o)
  \/ \E o \in 1..MaxSpeak : AudioPlayRejected(o)
  \/ \E o \in 1..MaxSpeak : AudioError(o)
  \/ \E o \in 1..MaxSpeak : AudioEnded(o)
  \/ \E u \in 1..MaxUtterances : UtteranceStart(u)
  \/ \E u \in 1..MaxUtterances : UtteranceEnd(u)
  \/ \E u \in 1..MaxUtterances : UtteranceError(u)
  \/ \E u \in 1..MaxUtterances, e \in CancelEvents : UtteranceCancelled(u, e)
  \/ \E q \in 1..MaxQueries, outcome \in QueryOutcomes : QueryResponse(q, outcome)
  \/ Tick

Spec == Init /\ [][Next]_vars


\* ------------------------------------------- classifier: specification

\* Words and phrases utterances are made of: a keyword of every rule, the
\* names of the find rule, and a word no rule knows.
Vocabulary ==
  {"stop", "pipeline", "quarter", "top donor", "contacts", "calendar", "reports",
   "find jonathan", "find datz", "weather", "donation tips", "what is", "help", "hello"}

\* Utterances of one word and of two words joined by a blank.
RECURSIVE Phrases(_)
Phrases(n) ==
  IF n = 1 THEN Vocabulary
  ELSE Phrases(n - 1) \cup {p \o " " \o v : p \in Phrases(n - 1), v \in Vocabulary}

ClassifyInputs ==
  Phrases(MaxWords)
    \cup {"stop the pipeline", "Stop The Pipeline", "biggest donor this quarter",
          "who is the biggest donor", "Find Jonathan on the calendar", ""}

NoIntent == Intent("", "", Null)

\* The variables of the session, at rest while the classifier is examined.
SessionAtRest ==
  /\ st = InitialState
  /\ chk = ChkOff
  /\ lastProcessedCommand = [current |-> "", age |-> Ticks(DebounceMs)]
  /\ stopSpeakingRef = 0
  /\ recognitionRef = 0
  /\ roomRef = 0
  /\ audioContextRef = FALSE
  /\ recs = [r \in 1..MaxRecognizers |-> NoRec]
  /\ ops = [o \in 1..MaxSpeak |-> NoOp]
  /\ utts = [u \in 1..MaxUtterances |-> NoUtt]
  /\ queries = [q \in 1..MaxQueries |-> NoQuery]
  /\ rooms = [k \in 1..MaxRooms |-> NoRoom]
  /\ timers = {}
  /\ disconnecting = FALSE
  /\ browser = [speechRecognition |-> TRUE, speechSynthesis |-> TRUE]
  /\ stimuli = 0
  /\ ev = NoEvent

SessionUnchanged ==
  UNCHANGED << st, chk, lastProcessedCommand, stopSpeakingRef, recognitionRef, roomRef,
               audioContextRef, recs, ops, utts, queries, rooms, timers, disconnecting,
               browser, stimuli, ev >>

InitClassify ==
  /\ SessionAtRest
  /\ window = NoDonationInfo
  /\ utterance \in ClassifyInputs
  /\ intent = NoIntent
  /\ heard = NoHeard
  /\ emitted = NoEmission
  /\ request = NoRequest
  /\ response = NoResponse
  /\ donations = << >>

\* The effect of the donations page (page.tsx lines 54-62): the biggest
\* donation of the tenant's list is stored in window.biggestDonationInfo.
DonationsPageEffect(slug) ==
  /\ intent = NoIntent
  /\ window' = DonationInfoOf(slug)
  /\ UNCHANGED << utterance, intent, heard, emitted, request, response, donations >>
  /\ SessionUnchanged

\* The classifier runs on the utterance.
ClassifyUtterance ==
  /\ intent = NoIntent
  /\ intent' = Classify(utterance, window)
  /\ UNCHANGED << utterance, window, heard, emitted, request, response, donations >>
  /\ SessionUnchanged

NextClassify ==
  \/ \E slug \in Slugs : DonationsPageEffect(slug)
  \/ ClassifyUtterance

SpecClassify == InitClassify /\ [][NextClassify]_vars


\* ------------------------------------------------- classifier: claims

\* The branches of the chain, in the order of the source.
CodeOrder ==
  << "stop", "pipeline", "donations", "biggest", "contacts", "calendar", "reports",
     "find", "weather", "advice", "question", "help", "default" >>

FindNames == {"jonathan", "takua", "hong", "datz"}

\* Do the keywords of a branch occur in the lowercased utterance?
Matches(branch, lc) ==
  CASE branch = "stop"      -> IsStop(lc)
    [] branch = "pipeline"  -> IsPipeline(lc)
    [] branch = "donations" -> IsDonations(lc)
    [] branch = "biggest"   -> IsBiggest(lc)
    [] branch = "contacts"  -> IsContacts(lc)
    [] branch = "calendar"  -> IsCalendar(lc)
    [] branch = "reports"   -> IsReports(lc)
    [] branch = "find"      -> \E name \in FindNames : IsFind(lc, name)
    [] branch = "weather"   -> IsWeather(lc)
    [] branch = "advice"    -> IsAdvice(lc)
    [] branch = "question"  -> IsQuestion(lc)
    [] branch = "help"      -> IsHelp(lc)
    [] OTHER                -> TRUE

\* The rule number the specification gives a branch: the biggest-donor
\* answer belongs to rule 3, the find variants to rule 4.
RuleNumber(branch) ==
  CASE branch = "stop"      -> 1
    [] branch = "pipeline"  -> 2
    [] branch = "donations" -> 3
    [] branch = "biggest"   -> 3
    [] branch = "contacts"  -> 4
    [] branch = "find"      -> 4
    [] branch = "calendar"  -> 5
    [] branch = "reports"   -> 6
    [] branch = "weather"   -> 7
    [] branch = "advice"    -> 8
    [] branch = "question"  -> 9
    [] branch = "help"      -> 10
    [] OTHER                -> 11

Branches == {CodeOrder[i] : i \in 1..Len(CodeOrder)}

Classified == intent # NoIntent

\* The least rule number among the rules whose keywords occur.
LeastRule(lc) ==
  CHOOSE n \in 1..11 :
    /\ \E b \in Branches : Matches(b, lc) /\ RuleNumber(b) = n
    /\ \A b \in Branches : Matches(b, lc) => RuleNumber(b) >= n

\* The first branch of the source's order whose keywords occur.
FirstInCodeOrder(lc) ==
  CodeOrder[CHOOSE i \in 1..Len(CodeOrder) :
              /\ Matches(CodeOrder[i], lc)
              /\ \A j \in 1..(i - 1) : ~Matches(CodeOrder[j], lc)]

C5_BiggestDonorInline ==
  LET lc == ToLowerCase(utterance) IN
  (Classified /\ IsDonations(lc) /\ IsBiggest(lc) /\ ~IsStop(lc) /\ ~IsPipeline(lc)) =>
    IF window.present
    THEN /\ intent.responseText =
              "Alex Inc is the biggest donor this quarter with $"
                \o ToLocaleString(window.amount) \o " donated on " \o window.date \o "!"
         /\ intent.navigateTo = Null
         /\ intent.branch \notin {"weather", "advice", "question"}
    ELSE intent.navigateTo = "/t/" \o tenantId \o "/donations"


\* ---------------------------------------------------- session: claims

\* Speak operations and remote queries that have begun and not ended.  The
\* browser utterance a failed hosted synthesis fell back to continues the
\* operation of its speak().
ActiveOps == {o \in 1..MaxSpeak : ops[o].phase \in {"fetch", "loading", "playing"}}
ActiveUtts == {u \in 1..MaxUtterances : utts[u].state \in {"queued", "speaking"}}
PendingQueries == {q \in 1..MaxQueries : queries[q].state = "pending"}

\* Sound is coming out: a hosted audio is playing or an utterance is spoken.
OutputPlaying ==
  \/ \E o \in 1..MaxSpeak : ops[o].phase = "playing"
  \/ \E u \in 1..MaxUtterances : utts[u].state = "speaking"

CaptureRunning == \E r \in 1..MaxRecognizers : recs[r].status \in {"starting", "listening"}

\* C1 as stated: at most one remote-query or speech-output operation is in
\* flight in every reachable state.
C1_AtMostOneInFlight ==
  Cardinality(ActiveOps) + Cardinality(ActiveUtts) + Cardinality(PendingQueries) <= 1

\* C2 as stated: a command handed to processVoiceCommand while the session
\* is speaking or processing is never accepted.
C2_BusyNeverAccepted ==
  (ev.h = "processVoiceCommand" /\ ev.busy) => ~ev.accepted

\* C3: processVoiceCommand accepts a command only when at least 3 seconds
\* have passed since the command it accepted before, whatever the text; so of
\* two commands equal after lowercasing and trimming that are submitted less
\* than 3 seconds apart, the second is ignored when the first was dispatched.
C3_DuplicateIgnored ==
  [][(ev'.h = "processVoiceCommand" /\ ev'.accepted)
       => /\ lastProcessedCommand.age >= Ticks(DebounceMs)
          /\ lastProcessedCommand.current # ev'.command]_vars

\* C3 witness: a command equal to the one dispatched less than 3 seconds
\* before has just been handed to processVoiceCommand and was ignored.
C3_Witness ==
  /\ ev.h = "processVoiceCommand" /\ ~ev.accepted
  /\ ev.command # "" /\ ev.command = lastProcessedCommand.current
  /\ lastProcessedCommand.age < Ticks(DebounceMs)

\* C6 as stated: no recognition session is starting or running while speech
\* output is playing.
C6_NoCaptureWhileSpeaking == ~(OutputPlaying /\ CaptureRunning)

\* C7 as stated: no recognition session is started while less than 2 seconds
\* have passed since an output ended (the re-arm timeout set at the end of an
\* output is still pending).
C7_NoEarlyResume ==
  ~(/\ ev.started
    /\ ~OutputPlaying /\ ActiveOps = {} /\ ActiveUtts = {}
    /\ \E t \in timers : t.kind = "rearm" /\ t.left > 0)

\* C8 as stated: for one speak() the fallback is entered at most once.
C8_FallbackOnce ==
  /\ \A o \in 1..MaxSpeak : ops[o].fallbacks <= 1
  /\ \A u \in 1..MaxUtterances : utts[u].attempt <= 1

StopUtterances == {c \in Heard : IsStop(ToLowerCase(c))}

\* C9 as stated: once a stop-speaking utterance has been handed to
\* processVoiceCommand, nothing is playing.
C9_StopHaltsPlayback ==
  (ev.h = "processVoiceCommand" /\ ev.command \in StopUtterances) => ~OutputPlaying

\* C10 as stated: when disconnectFromRoom has returned, nothing is playing
\* and isSpeaking is false.
C10_DisconnectHaltsPlayback ==
  ev.h = "disconnected" => (~OutputPlaying /\ ~st.isSpeaking)

\* C11 as stated: the reply of a remote query that settles when the session
\* is no longer connected is discarded: it is not handed to speak().
C11_LateReplyDiscarded ==
  (ev.h = "QueryResponse" /\ ~st.isConnected) =>
    ~\E o \in 1..MaxSpeak : ops[o].phase = "fetch" /\ ops[o].onEnd.kind = "query"

\* The moves of connectionStatus the component is meant to make: the chain
\* disconnected, connecting, connected, disconnected, and the way back from
\* connecting when an attempt fails.
StatusMoves ==
  { << "disconnected", "connecting" >>, << "connecting", "connected" >>,
    << "connected", "disconnected" >>, << "connecting", "disconnected" >> }

\* C12 as stated: connectionStatus changes only along disconnected ->
\* connecting -> connected -> disconnected; it never goes from disconnected to
\* connected directly and never from connected back to connecting.
C12_StatusChain ==
  [][st'.connectionStatus # st.connectionStatus
       => << st.connectionStatus, st'.connectionStatus >> \in StatusMoves]_vars

\* C13 as stated: when the session has become disconnected, by
\* disconnectFromRoom or by the provider's Disconnected event, no recognition
\* session is starting or running, level metering is off, and isProcessing
\* and isProcessingCommand are false.
C13_DisconnectedIsQuiet ==
  ev.h \in {"disconnected", "Disconnected"} =>
    /\ ~CaptureRunning
    /\ ~audioContextRef
    /\ ~st.isProcessing /\ ~st.isProcessingCommand

\* C14 as stated: between a transition to connected and the next disconnect
\* the greeting is handed to speak() at most once: no Connected handler
\* greets when a greeting has been issued since the last disconnect.
C14_GreetingOncePerConnection ==
  ~(ev.h = "greeting" /\ ev.again)

\* The canned apologies of the three remote-query branches.
Apologies ==
  { "I couldn't get the weather information right now. Please try again later!",
    "I'm having trouble getting weather information. Please try again!",
    "I couldn't get donation advice right now. Please try again later!",
    "I'm having trouble getting donation advice. Please try again!",
    "I couldn't answer that question right now. Please try again later!",
    "I'm having trouble answering that question. Please try again!" }

\* The speak operations a step has begun.
BegunOps == {o \in 1..MaxSpeak : ops'[o].phase = "fetch" /\ ops[o].phase # "fetch"}

\* C15: when the request of an accepted remote-query command settles, with
\* success, with a non-success status or by throwing, exactly one text is
\* handed to speech output: the answer on success, a canned apology otherwise.
C15_OneReplyPerQuery ==
  [][ev'.h = "QueryResponse"
       => /\ Cardinality(BegunOps) = 1
          /\ \A o \in BegunOps :
                /\ ops'[o].onEnd.kind = "query"
                /\ ev'.command = "ok" => ops'[o].text = Remote
                /\ ev'.command # "ok" => ops'[o].text \in Apologies
          /\ \A u \in 1..MaxUtterances :
                utts'[u].state = "queued" => utts[u].state = "queued"]_vars

\* C15 witness: a remote query has just failed and its apology is being
\* sent to the hosted synthesis.
C15_Witness ==
  /\ ev.h = "QueryResponse" /\ ev.command \in {"status", "throw"}
  /\ \E o \in 1..MaxSpeak :
        ops[o].phase = "fetch" /\ ops[o].onEnd.kind = "query" /\ ops[o].text \in Apologies

\* The reply of the command that navigates to `nav` is still being put out:
\* its hosted audio is being fetched, loaded or played, or its utterance is
\* queued or spoken.
ReplyInProgress(nav) ==
  \/ \E o \in ActiveOps : ops[o].onEnd.kind = "local" /\ ops[o].onEnd.navigateTo = nav
  \/ \E u \in ActiveUtts : utts[u].onEnd.kind = "local" /\ utts[u].onEnd.navigateTo = nav

\* C16 as stated: router.push of a navigate command runs only after the
\* speech output of that command has completed, never while its reply is
\* still being spoken.
C16_NavigateAfterReply ==
  ev.h = "router.push" => ~ReplyInProgress(ev.command)

\* C17 as stated: for a navigate command the processing flags and the
\* duplicate-suppression record are cleared only after the navigation was
\* triggered: when router.push runs they are all still set.
C17_ClearedAfterNavigation ==
  ev.h = "router.push" =>
    /\ st.isProcessing /\ st.isProcessingCommand
    /\ lastProcessedCommand.current # ""

\* A completion callback of a command is still to run: a remote query is
\* pending, or a speak operation or an utterance that carries the callback
\* has not ended (a cancelled utterance may still deliver its end event).
CompletionPending ==
  \/ PendingQueries # {}
  \/ \E o \in 1..MaxSpeak :
        ops[o].phase \in {"fetch", "loading", "playing", "rejecting"} /\ ops[o].onEnd.kind # "none"
  \/ \E u \in 1..MaxUtterances :
        utts[u].state \in {"queued", "speaking", "cancelled"} /\ utts[u].onEnd.kind # "none"

\* C18 as stated: after every accepted command lastProcessedCommand is
\* eventually cleared: while it is set, the timeout that clears it is pending
\* or the completion callback that sets this timeout is still to run.
C18_RecordEventuallyCleared ==
  lastProcessedCommand.current # "" =>
    \/ \E t \in timers : t.kind = "clear"
    \/ CompletionPending

\* C19 as stated: no failure leaves the session stuck: while isProcessing or
\* isProcessingCommand is set, something that clears them is still to run (a
\* completion callback, or the rest of disconnectFromRoom).
C19_FlagsEventuallyCleared ==
  (st.isProcessing \/ st.isProcessingCommand) => (CompletionPending \/ disconnecting)

\* C20 as stated: once speech has been cancelled, by stopSpeaking() called
\* for a stop-speaking command or by the Stop Speaking button, nothing is
\* playing on either backend and isSpeaking is false.
C20_CancelStopsBothBackends ==
  (\/ ev.h = "Stop Speaking"
   \/ ev.h = "processVoiceCommand" /\ ev.accepted /\ ev.command \in StopUtterances)
    => (~OutputPlaying /\ ~st.isSpeaking)

\* The session is in the state a 'not-allowed' recognition error leaves:
\* the error message is shown and ambient mode is off.
MicrophoneDenied ==
  /\ st.error = "Microphone access denied. Please allow microphone access!"
  /\ ~st.isAmbientMode

\* C21 as stated: after a 'not-allowed' recognition error, while ambient mode
\* has not been turned on again, no handler starts a recognition session.
C21_NoRestartAfterDenial ==
  MicrophoneDenied => ~ev.started

\* C22 as stated: when the 2 second timeout of recognition.onend expires, the
\* stream is restarted if and only if at that time the session is connected,
\* ambient mode is on, no speech output is in progress and no command is
\* being processed.
C22_RestartIffIdle ==
  ev.h = "restart" =>
    (ev.started <=> /\ st.isConnected /\ st.isAmbientMode
                    /\ ~st.isSpeaking /\ ~OutputPlaying
                    /\ ~st.isProcessingCommand /\ ~st.isProcessing)

\* The session should be listening and is not: connected, ambient mode on,
\* not speaking, no command being processed, and no stream running, in a
\* browser that has the recognition API.
ShouldBeListening ==
  /\ browser.speechRecognition
  /\ st.isConnected /\ st.isAmbientMode
  /\ ~st.isSpeaking /\ ~st.isProcessingCommand /\ ~st.isListening

\* C23: while the session should be listening and is not, the periodic
\* check is scheduled to run within 5 seconds with a callback that sees this
\* very state, and when it runs it starts a recognition session.
C23_CheckRestartsCapture ==
  ShouldBeListening =>
    /\ chk.on /\ chk.left <= Ticks(CheckIntervalMs)
    /\ Deps(chk.env) = Deps(st)
    /\ ev.h = "periodic check" => ev.started

\* C23 witness: the periodic check has just run in such a state and has
\* started a recognition session.
C23_Witness ==
  ShouldBeListening /\ ev.h = "periodic check" /\ ev.started


\* ------------------------------------------------ capture: specification

\* Bounds of the recognition events: results per event, and the transcripts
\* and confidences (in hundredths) a result may carry.
MaxResults == 2
CaptureTexts == {"stop", "I do", " um ", "Hello", "Microphone", "pipeline", "show pipeline"}
Confidences == {79, 80}

Segments == [transcript : CaptureTexts, isFinal : BOOLEAN, confidence : Confidences]

RECURSIVE Batches(_)
Batches(n) ==
  IF n = 0 THEN {<< >>}
  ELSE LET shorter == Batches(n - 1) IN
       shorter \cup {Append(b, g) : b \in {x \in shorter : Len(x) = n - 1}, g \in Segments}

\* The events a recognizer delivers: one result or more, resultIndex at the
\* first result that changed.
RecognitionEvents(n) ==
  UNION {{[source |-> "recognizer", resultIndex |-> i, results |-> b, text |-> ""] :
            i \in 1..Len(b)} : b \in {x \in Batches(n) : Len(x) >= 1}}

\* The transcripts other participants publish to the room.
RoomTranscripts ==
  {[NoHeard EXCEPT !.source = "room", !.text = c] : c \in NoiseTranscripts \cup {"show pipeline"}}

InitCapture ==
  /\ SessionAtRest
  /\ window = NoDonationInfo
  /\ utterance = ""
  /\ intent = Intent("", "", Null)
  /\ heard \in RecognitionEvents(MaxResults) \cup RoomTranscripts
  /\ emitted = NoEmission
  /\ request = NoRequest
  /\ response = NoResponse
  /\ donations = << >>

\* recognition.onresult runs on the event, in a closure that is busy or not,
\* with or without a room.
CaptureResult ==
  /\ heard.source = "recognizer" /\ ~emitted.handled
  /\ \E busy \in BOOLEAN, room \in BOOLEAN : emitted' = onresult(heard, busy, room)
  /\ UNCHANGED << heard, window, utterance, intent, request, response, donations >>
  /\ SessionUnchanged

\* The DataReceived handler runs on a transcript message (lines 1176-1191),
\* in the session at rest.
CaptureRoomTranscript ==
  /\ heard.source = "room" /\ ~emitted.handled
  /\ LET env == Env(st)
         w   == processVoiceCommand(World, heard.text, env)
     IN emitted' =
          [handled |-> TRUE, setTranscript |-> << heard.text >>, publishData |-> << >>,
           processVoiceCommand |-> IF ~Busy(env) THEN << heard.text >> ELSE << >>,
           accepted |-> ~Busy(env) /\ w.lp # World.lp]
  /\ UNCHANGED << heard, window, utterance, intent, request, response, donations >>
  /\ SessionUnchanged

NextCapture ==
  \/ CaptureResult
  \/ CaptureRoomTranscript

SpecCapture == InitCapture /\ [][NextCapture]_vars


\* ------------------------------------------------------ capture: claims

\* The final transcript of the event the recognizer delivered.
HeardFinal == Transcripts(heard.results, heard.resultIndex, TRUE)

\* The interim transcript of that event.
HeardInterim == Transcripts(heard.results, heard.resultIndex, FALSE)

\* C24: for a final transcript whose trimmed text is shorter than 5
\* characters recognition.onresult calls neither processVoiceCommand nor
\* publishData, and setTranscript is not called with it: its only call, if
\* any, is the one that shows the interim transcript.
C24_ShortFinalDropped ==
  (emitted.handled /\ heard.source = "recognizer"
     /\ HeardFinal # "" /\ Len(Trim(HeardFinal)) < 5) =>
    /\ emitted.processVoiceCommand = << >>
    /\ emitted.publishData = << >>
    /\ emitted.setTranscript = IF HeardInterim # "" THEN << HeardInterim >> ELSE << >>

\* C24 witness: the final transcript "stop" came with full confidence
\* together with an interim result, and only the interim text was shown.
C24_Witness ==
  /\ emitted.handled /\ heard.source = "recognizer"
  /\ HeardFinal = "stop"
  /\ \A k \in 1..Len(heard.results) : heard.results[k].confidence = 80
  /\ Len(emitted.setTranscript) = 1
  /\ emitted.processVoiceCommand = << >>


\* C25: a transcript whose trimmed, lowercased text is an entry of the
\* noise-word list produces no intent: from the recognizer it is not handed
\* to processVoiceCommand, and from a room transcript message
\* processVoiceCommand returns before it classifies.
C25_NoiseProducesNoIntent ==
  /\ (emitted.handled /\ heard.source = "recognizer"
        /\ Trim(ToLowerCase(HeardFinal)) \in noisePatterns)
       => emitted.processVoiceCommand = << >>
  /\ (emitted.handled /\ heard.source = "room"
        /\ Trim(ToLowerCase(heard.text)) \in noisePatterns)
       => ~emitted.accepted

\* C25 witness: the room transcript " OK " was handed to processVoiceCommand
\* and was not accepted.
C25_Witness ==
  /\ emitted.handled /\ heard.source = "room" /\ heard.text = " OK "
  /\ emitted.processVoiceCommand = << " OK " >>
  /\ ~emitted.accepted

\* C26 as stated: an event that holds a final result with confidence below
\* 0.8 among the results it reports leads to no call of processVoiceCommand
\* and of publishData.
C26_LowConfidenceDropped ==
  (emitted.handled /\ heard.source = "recognizer"
     /\ \E k \in heard.resultIndex..Len(heard.results) :
          heard.results[k].isFinal /\ heard.results[k].confidence < 80)
    => (emitted.processVoiceCommand = << >> /\ emitted.publishData = << >>)


\* ---------------------------------------------------- server routes: mood

\* sensitiveKeywords (part_001 line 76)
sensitiveKeywords ==
  {"hurt myself", "suicide", "kill myself", "end it all", "not worth it"}

\* A test that finds a keyword only when the query is exactly that keyword.
IsSensitiveExact(query) == query \in sensitiveKeywords

\* isSensitive (line 77)
IsSensitive(query) == \E keyword \in sensitiveKeywords : Includes(ToLowerCase(query), keyword)

empatheticResponse ==
  "I'm really sorry you're feeling this way. You are valued and important, and there are people who care about you. Please know that you don't have to go through this alone. Is there someone you trust that you could talk to? I'm here to listen and support you."

\* moodKeywords (lines 91-102), in the order of Object.keys
moodKeywords ==
  << [mood |-> "sad", answer |-> "I'm really sorry you're feeling this way. It's okay to feel sad sometimes. Can you tell me more about what's been going on? I'm here to listen and support you."],
     [mood |-> "angry", answer |-> "I understand you're feeling angry, and that's completely valid. Sometimes it helps to talk about what's bothering you. What's been on your mind?"],
     [mood |-> "frustrated", answer |-> "I'm sorry you're feeling frustrated. That can be really tough to deal with. Is there something specific that's been bothering you? I'm here to listen."],
     [mood |-> "overwhelmed", answer |-> "I'm sorry you're feeling overwhelmed. That can be really difficult. Take a deep breath - you're doing your best. What's been weighing on you?"],
     [mood |-> "stressed", answer |-> "I'm sorry you're feeling stressed. That can be really draining. Is there anything specific that's been causing you stress? I'm here to support you."],
     [mood |-> "anxious", answer |-> "I'm sorry you're feeling anxious. That can be really uncomfortable. Take a moment to breathe. What's been making you feel this way?"],
     [mood |-> "lonely", answer |-> "I'm sorry you're feeling lonely. That can be really hard. You're not alone in this - I'm here to listen and support you. What's been on your mind?"],
     [mood |-> "happy", answer |-> "That's wonderful to hear! I'm so glad you're feeling happy. What's been making you feel this way? I'd love to share in your joy!"],
     [mood |-> "excited", answer |-> "That's fantastic! I'm excited for you! What's got you feeling this way? I'd love to hear about it!"],
     [mood |-> "grateful", answer |-> "That's beautiful! Gratitude is such a wonderful feeling. What are you grateful for? I'd love to hear about it!"] >>

\* The test of Object.keys(moodKeywords).find (lines 105-110)
MentionsMood(query, mood) ==
  LET q == ToLowerCase(query) IN
  \/ Includes(q, mood)
  \/ Includes(q, "feeling " \o mood)
  \/ Includes(q, "i'm " \o mood)
  \/ Includes(q, "i am " \o mood)

\* detectedMood: the index of the first mood the query mentions, 0 for none.
detectedMood(query) ==
  LET found == {k \in 1..Len(moodKeywords) : MentionsMood(query, moodKeywords[k].mood)}
  IN  IF found = {} THEN 0 ELSE CHOOSE k \in found : \A j \in found : k <= j

\* NextResponse.json(body, {status})
Json(status, answer, query, calls) ==
  [phase |-> "done", status |-> status, answer |-> answer, query |-> query,
   upstream |-> calls]

\* The upstream service accepts the key: it is set and is not the placeholder
\* of the sample environment file.
ValidKey(apiKey) == apiKey \notin {"", "your_openai_api_key_here"}

\* The mood route's POST up to its return or its call of the upstream model
\* (lines 64-136).
MoodPost ==
  /\ request.route = "mood" /\ response.phase = "received"
  /\ LET query == request.body IN
     response' =
       IF query = "" THEN Json(400, "", "", 0)
       ELSE IF IsSensitive(query) THEN Json(200, empatheticResponse, query, 0)
       ELSE IF detectedMood(query) # 0
         THEN Json(200, moodKeywords[detectedMood(query)].answer, query, 0)
       ELSE [response EXCEPT !.phase = "upstream", !.upstream = @ + 1]

\* The upstream model answers the mood route (lines 138-161): with a
\* completion, with an empty completion, or with an error status.
MoodUpstream(outcome) ==
  /\ request.route = "mood" /\ response.phase = "upstream"
  /\ outcome # "error" => ValidKey(request.apiKey)
  /\ response' =
       IF outcome = "error" THEN Json(500, "", "", response.upstream)
       ELSE Json(200,
                 IF outcome = "ok" THEN Remote
                 ELSE "I'm here to listen and support you. How can I help you feel better?",
                 request.body, response.upstream)


\* ----------------------------------------------------- server routes: tts

\* The two POST handlers of the synthesis proxy: the route of apps/web
\* (tts/route.ts) and the copy without the credential check (part_000).
TtsRoutes == {"tts", "tts (part_000)"}

\* `!apiKey || apiKey === 'your_openai_api_key_here'` (route.ts line 16); the
\* copy of part_000 has no such test.
KeyMissing(route, apiKey) == route = "tts" /\ ~ValidKey(apiKey)

\* The synthesis proxy's POST up to its return or its call of the upstream
\* service (route.ts lines 3-37, part_000 lines 3-27).
TtsPost ==
  /\ request.route \in TtsRoutes /\ response.phase = "received"
  /\ response' =
       IF request.body = "" THEN Json(400, "", "", 0)
       ELSE IF KeyMissing(request.route, request.apiKey) THEN Json(503, "", "", 0)
       ELSE [response EXCEPT !.phase = "upstream", !.upstream = @ + 1]

\* The upstream service answers the synthesis proxy (route.ts lines 39-60,
\* part_000 lines 29-50): with the audio or with an error status.
TtsUpstream(ok) ==
  /\ request.route \in TtsRoutes /\ response.phase = "upstream"
  /\ ok => ValidKey(request.apiKey)
  /\ response' =
       IF ok THEN Json(200, "<audio/mpeg>", "", response.upstream)
       ELSE Json(500, "", "", response.upstream)

\* ------------------------------------------ server routes: query proxies

\* The POST handlers that forward a query to the chat model: the
\* general-question route (route.ts) and the donation-advice route
\* (part_001 lines 1-61).
QueryRoutes == {"general-question", "donation-advice"}

\* A test that lets every field pass.
IsMissingNever(field) == FALSE

\* `!query`: the field is absent from the body or is the empty string
\* (general-question/route.ts line 7, part_001 line 7).
IsMissing(field) == field = ""

\* `data.choices[0]?.message?.content || '...'` (route.ts line 46, part_001
\* line 45)
NoCompletion(route) ==
  IF route = "general-question"
  THEN "Sorry, I could not answer that question at this time."
  ELSE "Sorry, I could not provide donation advice at this time."

\* A query proxy's POST up to its return or its call of the upstream model
\* (route.ts lines 3-38, part_001 lines 3-37).
QueryPost ==
  /\ request.route \in QueryRoutes /\ response.phase = "received"
  /\ response' =
       IF IsMissing(request.body) THEN Json(400, "", "", 0)
       ELSE [response EXCEPT !.phase = "upstream", !.upstream = @ + 1]

\* The upstream model answers a query proxy (route.ts lines 40-60, part_001
\* lines 39-60): with a completion, with an empty completion, with an error
\* status, or the fetch throws; the last two end in the catch block.
QueryUpstream(outcome) ==
  /\ request.route \in QueryRoutes /\ response.phase = "upstream"
  /\ outcome \in {"ok", "empty"} => ValidKey(request.apiKey)
  /\ response' =
       IF outcome \in {"error", "throw"} THEN Json(500, "", "", response.upstream)
       ELSE Json(200, IF outcome = "ok" THEN Remote ELSE NoCompletion(request.route),
                 request.body, response.upstream)

\* --------------------------------------------- server routes: specification

\* The queries and texts of the modelled requests.
QueryOpenings == {"", "I want to ", "Sometimes I think about "}
QueryEndings ==
  sensitiveKeywords \cup
  {"HURT MYSELF", "Suicide", "hurting", "sad", "being Happy", "lunch", "the weather"}
ApiKeys == {"", "your_openai_api_key_here", "sk-live"}

Requests ==
  {[route |-> "mood", body |-> o \o e, apiKey |-> k] :
     o \in QueryOpenings, e \in QueryEndings \cup {""}, k \in ApiKeys}
  \cup [route : TtsRoutes, body : {"", "Opening the sales pipeline for you!"}, apiKey : ApiKeys]
  \cup [route : QueryRoutes, body : {"", "what is ai", "donation tips"}, apiKey : ApiKeys]

InitRoutes ==
  /\ SessionAtRest
  /\ window = NoDonationInfo
  /\ utterance = ""
  /\ intent = Intent("", "", Null)
  /\ heard = NoHeard
  /\ emitted = NoEmission
  /\ request \in Requests
  /\ response = NoResponse
  /\ donations = << >>

RoutesUnchanged ==
  /\ UNCHANGED << request, window, utterance, intent, heard, emitted, donations >>
  /\ SessionUnchanged

NextRoutes ==
  \/ MoodPost /\ RoutesUnchanged
  \/ \E outcome \in {"ok", "empty", "error"} : MoodUpstream(outcome) /\ RoutesUnchanged
  \/ TtsPost /\ RoutesUnchanged
  \/ \E ok \in BOOLEAN : TtsUpstream(ok) /\ RoutesUnchanged
  \/ QueryPost /\ RoutesUnchanged
  \/ \E outcome \in {"ok", "empty", "error", "throw"} : QueryUpstream(outcome) /\ RoutesUnchanged

SpecRoutes == InitRoutes /\ [][NextRoutes]_vars

\* ---------------------------------------------------- server routes: claims

\* C27: the mood route, given a query that contains one of the self-harm
\* indicators in any letter case, never calls the upstream model and answers
\* with status 200, the fixed empathetic response and the query echoed.
C27_SelfHarmAnsweredLocally ==
  (request.route = "mood"
     /\ \E keyword \in sensitiveKeywords : Includes(ToLowerCase(request.body), keyword))
    => /\ response.upstream = 0
       /\ response.phase # "upstream"
       /\ response.phase = "done" =>
            /\ response.status = 200
            /\ response.answer = empatheticResponse
            /\ response.query = request.body

\* C27 witness: "I want to hurt myself" has been answered.
C27_Witness ==
  /\ request.route = "mood" /\ request.body = "I want to hurt myself"
  /\ response.phase = "done" /\ response.answer = empatheticResponse

\* C28 as stated: with OPENAI_API_KEY unset or set to the placeholder, the
\* synthesis proxy never calls the upstream service and answers a request
\* that has a text with status 503.
C28_MissingKeyIs503 ==
  (request.route \in TtsRoutes /\ ~ValidKey(request.apiKey) /\ request.body # "")
    => /\ response.upstream = 0
       /\ response.phase = "done" => response.status = 503

\* The proxy endpoints: synthesis, mood and the two query proxies.
ProxyRoutes == TtsRoutes \cup QueryRoutes \cup {"mood"}

\* C39: every proxy endpoint answers a request whose required field is empty
\* or missing with status 400 and without a call of the upstream service,
\* and answers an upstream failure (a non-success status or a thrown error,
\* the only outcomes when the credential is not valid) with status 500 and
\* an error body that carries no answer: after an upstream call the status
\* is 200 with an answer or 500 without one.
C39_MissingFieldAndUpstreamFailure ==
  request.route \in ProxyRoutes =>
    /\ request.body = "" =>
          /\ response.upstream = 0 /\ response.phase # "upstream"
          /\ response.phase = "done" => response.status = 400 /\ response.answer = ""
    /\ (response.phase = "done" /\ response.upstream > 0) =>
          /\ response.upstream = 1
          /\ response.status \in {200, 500}
          /\ response.status = 500 <=> response.answer = ""
          /\ ~ValidKey(request.apiKey) => response.status = 500

\* C39 witness: the general-question proxy has called the upstream model
\* with a credential it rejects, and has answered 500.
C39_Witness ==
  /\ request.route = "general-question" /\ request.body = "what is ai"
  /\ ~ValidKey(request.apiKey)
  /\ response.phase = "done" /\ response.upstream = 1 /\ response.status = 500


\* ------------------------------------------- classifier: claims, continued

\* The search parameter the code writes for a known name.
SearchName(name) ==
  CASE name = "jonathan" -> "Jonathan"
    [] name = "takua"    -> "Takua"
    [] name = "hong"     -> "Hong"
    [] name = "datz"     -> "Datz"

\* C29 as stated: an utterance of the form "find <name>" with a known name,
\* whether or not it also mentions contacts, people or customers (and with no
\* keyword of the branches for stop, pipeline, donations, biggest donor,
\* calendar and reports), navigates to the contacts page with search=<Name>.
C29_FindNameSearches ==
  LET lc == ToLowerCase(utterance) IN
  \A name \in FindNames :
    (Classified /\ StartsWith(lc, "find " \o name)
       /\ ~IsStop(lc) /\ ~IsPipeline(lc) /\ ~IsDonations(lc) /\ ~IsBiggest(lc)
       /\ ~IsCalendar(lc) /\ ~IsReports(lc))
      => intent.navigateTo = "/t/" \o tenantId \o "/contacts?search=" \o SearchName(name)


\* ------------------------------------------- session: claims, continued

\* The branches of the classifier that answer with a page to go to.
NavigateBranches ==
  Branches \ {"stop", "weather", "advice", "question", "help", "default"}

\* `text` is the reply of a navigate intent whose page is `nav`.
NavigateReply(text, nav) ==
  \E c \in DOMAIN CommandFacts :
     /\ CommandFacts[c].intent.branch \in NavigateBranches
     /\ CommandFacts[c].intent.responseText = text
     /\ CommandFacts[c].intent.navigateTo = nav

\* The branch of the command a step has accepted ("" when it accepted none).
AcceptedBranch ==
  IF ev'.h = "processVoiceCommand" /\ ev'.accepted
  THEN CommandFacts[ev'.command].intent.branch
  ELSE ""

C31_CallbackAtMostOnce ==
  ev.h = "ended" => ~ev.again


\* C32 as stated: the busy flags, active speech output and a repetition of
\* the last processed command are the only reasons for rejection: a command
\* that differs from the last processed one, submitted while no flag is set
\* and nothing is spoken, is accepted, whatever the time since the last
\* accepted command.
C32_OnlyListedGuardsReject ==
  [][(/\ ev'.h = "processVoiceCommand"
      /\ ~ev'.busy
      /\ CommandFacts[ev'.command].specific
      /\ ev'.command # lastProcessedCommand.current)
       => ev'.accepted]_vars


\* C33 as stated: while the session is disconnected no recognition session
\* is started and no command is dispatched, by whatever timer or callback
\* was armed before the disconnect.
C33_NoCaptureWhileDisconnected ==
  ~st.isConnected =>
    /\ ~ev.started
    /\ ~(ev.h = "processVoiceCommand" /\ ev.accepted)


\* The recognizers whose session is starting or running.
ActiveRecognizers ==
  {r \in 1..MaxRecognizers : recs[r].status \in {"starting", "listening"}}

\* C34 as stated: at most one speech-recognition session is active at any
\* time.
C34_OneRecognitionSession ==
  Cardinality(ActiveRecognizers) <= 1


\* C35 as stated: after the toggle has turned ambient mode off, capture
\* stays off: while the session is connected with ambient mode off (and not
\* because the microphone was denied), no timer and no periodic check starts
\* a recognition session.
C35_ToggleOffStaysOff ==
  (/\ st.isConnected /\ ~st.isAmbientMode
   /\ ~MicrophoneDenied
   /\ ev.h # "greeting")
    => ~ev.started


\* The renders a handler that calls processVoiceCommand may have closed
\* over: the current one, those of the rooms' handlers and of the timers.
Closures ==
  {Env(st)} \cup {rooms[k].env : k \in 1..MaxRooms} \cup {t.env : t \in timers}

\* One of the four rejection paths applies to command c in closure env: a
\* busy flag, the last processed command again, a single word without help
\* or stop, less than 3 seconds since the last accepted command.
RejectionPath(c, env) ==
  \/ env.isProcessingCommand \/ env.isSpeaking \/ env.isProcessing
  \/ lastProcessedCommand.current = CommandFacts[c].normalized
  \/ ~CommandFacts[c].specific
  \/ lastProcessedCommand.age < Ticks(DebounceMs)

\* C36: a rejected command leaves the dispatcher state unchanged: on every
\* rejection path processVoiceCommand returns with lastProcessedCommand, its
\* timestamp, the flags, avatarState and everything else as they were, and
\* has begun no speech output and no remote query.
C36_RejectionChangesNothing ==
  \A c \in DOMAIN CommandFacts, env \in Closures :
     RejectionPath(c, env) => processVoiceCommand(World, c, env) = World

\* C36 witness: in an idle session a command that differs from the last
\* processed one has just been rejected, inside the cooldown.
C36_Witness ==
  /\ ev.h = "processVoiceCommand" /\ ~ev.accepted /\ ~ev.busy
  /\ lastProcessedCommand.current # "" /\ ev.command # lastProcessedCommand.current
  /\ CommandFacts[ev.command].specific
  /\ lastProcessedCommand.age > 0 /\ lastProcessedCommand.age < Ticks(DebounceMs)


\* C37 as stated: an accepted stop-speaking command produces no speech
\* output, no remote call and no navigation, and returns with isProcessing,
\* isProcessingCommand and isSpeaking false: its handler begins no speak
\* operation and no utterance, sends no query and schedules no router.push.
C37_StopProducesNothing ==
  [][AcceptedBranch = "stop" =>
       /\ BegunOps = {}
       /\ \A u \in 1..MaxUtterances :
             utts'[u].state = "queued" => utts[u].state = "queued"
       /\ queries' = queries
       /\ \A t \in timers' : t.kind = "navigate" => t \in timers
       /\ ~st'.isProcessing /\ ~st'.isProcessingCommand /\ ~st'.isSpeaking
    ]_vars


\* The session is busy: a command is in flight or speech output is active.
SessionBusy == st.isSpeaking \/ st.isProcessing \/ st.isProcessingCommand

\* C38 as stated: a final transcript that passes the capture filters is
\* dispatched only after the 500 ms delay and only if the session is not
\* busy both when the transcript arrives (the delay is set) and when the
\* delay expires (processVoiceCommand is called and accepts).
C38_DispatchOnlyWhenIdle ==
  [][/\ \A t \in timers' \ timers :
           (t.kind = "dispatch" /\ t.left = Ticks(DispatchDelayMs)) => ~SessionBusy
     /\ (/\ ev'.h = "processVoiceCommand" /\ ev'.accepted
         /\ \E t \in timers \ timers' : t.kind = "dispatch")
          => ~SessionBusy
    ]_vars


\* ------------------------------------------- donations page: specification

\* Bound of the lists the reduction is examined on.
MaxDonations == 3

\* Donations as the page lists them: amounts that tie and amounts that do
\* not, on two dates, by two contacts.
Donations ==
  [id : {"1"}, amount : {500, 1000}, date : {"2024-10-24", "2024-10-25"},
   contact : {"Alex.Inc (Sponsor)", "Jane Doe"}, status : {"sent"}]

\* The lists of a donations page: the two lists of the source, and every
\* list of one to n donations.
DonationLists(n) ==
  {mockDonations(slug) : slug \in Slugs} \cup UNION {[1..k -> Donations] : k \in 1..n}

InitDonations ==
  /\ SessionAtRest
  /\ window = NoDonationInfo
  /\ utterance = ""
  /\ intent = NoIntent
  /\ heard = NoHeard
  /\ emitted = NoEmission
  /\ request = NoRequest
  /\ response = NoResponse
  /\ donations \in DonationLists(MaxDonations)

\* The page renders its list: biggestDonation is reduced from it (page.tsx
\* lines 49-51) and the effect stores its fields in
\* window.biggestDonationInfo (lines 54-62).
PublishBiggestDonation ==
  /\ ~window.present
  /\ LET biggest == ReduceMax(donations, 1, donations[1]) IN
     window' = [present |-> TRUE, donor |-> biggest.contact,
                amount |-> biggest.amount, date |-> biggest.date]
  /\ UNCHANGED << donations, utterance, intent, heard, emitted, request, response >>
  /\ SessionUnchanged

NextDonations == PublishBiggestDonation

SpecDonations == InitDonations /\ [][NextDonations]_vars

\* ------------------------------------------------ donations page: claims

\* The positions of the donations with the maximum amount of the list.
MaxPositions ==
  {i \in 1..Len(donations) : \A j \in 1..Len(donations) : donations[j].amount <= donations[i].amount}

\* C40: the published biggest-donation fact is the donation with the maximum
\* amount of the page's list, the earliest in list order when several share
\* the maximum, and its donor, amount and date all come from that donation.
C40_BiggestIsFirstMaximum ==
  window.present =>
    LET first == CHOOSE i \in MaxPositions : \A j \in MaxPositions : i <= j IN
    /\ window.donor = donations[first].contact
    /\ window.amount = donations[first].amount
    /\ window.date = donations[first].date

\* C40 witness: the fact of a list in which two donations by different
\* contacts share the maximum has been published.
C40_Witness ==
  /\ window.present
  /\ \E i, j \in MaxPositions :
        i < j /\ donations[i].contact # donations[j].contact

=============================================================================
